---- MODULE Spec2Model ----
(***************************************************************************)
(* DocuFind (src-tauri): index maintenance and search orchestration.       *)
(*                                                                         *)
(* Strings are sequences of one-character strings, so that prefix and      *)
(* substring tests are computed the way str::starts_with / str::contains   *)
(* compute them.  Paths are Windows style (MAIN_SEPARATOR = '\').           *)
(***************************************************************************)
EXTENDS Integers, Sequences, FiniteSets, TLC

\* Option::None for an optional string, and for an optional number
None == <<"None">>
NoNum == -1

(***************************************************************************)
(* Strings                                                                 *)
(***************************************************************************)
Sep == "\\"

\* str::starts_with
StartsWith(s, p) == Len(p) <= Len(s) /\ SubSeq(s, 1, Len(p)) = p

\* str::contains (an empty needle is contained in every string)
Contains(s, n) ==
    \E i \in 0..(Len(s) - Len(n)) : SubSeq(s, i + 1, i + Len(n)) = n

\* char::to_lowercase on the letters of the model's alphabet
LowerChar(c) ==
    CASE c = "A" -> "a"
      [] c = "D" -> "d"
      [] c = "M" -> "m"
      [] c = "N" -> "n"
      [] c = "O" -> "o"
      [] c = "R" -> "r"
      [] c = "T" -> "t"
      [] c = "X" -> "x"
      [] OTHER -> c

\* str::to_lowercase
ToLower(s) == [i \in 1..Len(s) |-> LowerChar(s[i])]

\* char::is_ascii: "beh" stands for the Arabic letter U+0628
IsAsciiChar(c) == c # "beh"

\* char::is_alphabetic
IsAlphabetic(c) ==
    c \in {"a", "d", "m", "n", "o", "r", "t", "x",
           "A", "D", "M", "N", "O", "R", "T", "X", "beh"}

\* char::is_alphanumeric
IsAlphanumeric(c) == IsAlphabetic(c) \/ c \in {"0", "1", "2"}

\* char::is_whitespace
IsSpace(c) == c = " "

\* str::trim().is_empty()
IsBlank(s) == \A i \in 1..Len(s) : IsSpace(s[i])

(***************************************************************************)
(* std::path::Path                                                         *)
(***************************************************************************)
RECURSIVE StripTrailingSep(_)
StripTrailingSep(p) ==
    IF Len(p) > 1 /\ p[Len(p)] = Sep
    THEN StripTrailingSep(SubSeq(p, 1, Len(p) - 1))
    ELSE p

LastSep(p) ==
    LET idx == {i \in 1..Len(p) : p[i] = Sep}
    IN IF idx = {} THEN 0 ELSE CHOOSE i \in idx : \A j \in idx : j <= i

\* Path::parent, rendered with to_string_lossy
PathParent(p) ==
    LET q == StripTrailingSep(p)
        i == LastSep(q)
    IN IF q = <<>> \/ q = <<Sep>> THEN None
       ELSE IF i = 0 THEN <<>>
       ELSE IF i = 1 THEN <<Sep>>
       ELSE SubSeq(q, 1, i - 1)

\* Path::file_name, rendered with to_string_lossy
PathFileName(p) ==
    LET q == StripTrailingSep(p)
    IN IF q = <<>> \/ q = <<Sep>> THEN None
       ELSE SubSeq(q, LastSep(q) + 1, Len(q))

(***************************************************************************)
(* The folders and files of the modelled disk                              *)
(***************************************************************************)
FolderD  == <<Sep, "d">>
FolderP  == <<Sep, "d", Sep, "p">>
FolderP2 == <<Sep, "d", Sep, "p", "2">>
FolderS  == <<Sep, "d", Sep, "p", Sep, "s">>
Folders  == {FolderD, FolderP, FolderP2, FolderS}

File1 == <<Sep, "d", Sep, "p", Sep, "n">>
File2 == <<Sep, "d", Sep, "p", "2", Sep, "R">>
File3 == <<Sep, "d", Sep, "p", Sep, "s", Sep, "m">>
Files == {File1, File2, File3}

\* two files that are created later: one of an unsupported type, one that
\* the extractor cannot read
File4 == <<Sep, "d", Sep, "p", Sep, "t">>
File5 == <<Sep, "d", Sep, "p", Sep, "o">>

\* a document of another DocumentTable: Arabic text that ends in a Latin letter
File6 == <<Sep, "d", Sep, "a">>

\* the extension of each file (Path::extension, lower-cased)
ExtOf(path) ==
    CASE path = File1 -> "doc"
      [] path = File2 -> "txt"
      [] path = File3 -> "docx"
      [] path = File4 -> "pdf"
      [] path = File5 -> "xlsx"
      [] path = File6 -> "txt"

\* what the extractor reads from each file: nothing from a file of an
\* unsupported type or one it fails on
extract_content(path) ==
    CASE path = File1 -> <<"r", " ", "x", " ", "R">>
      [] path = File2 -> <<"x", " ", "beh">>
      [] path = File3 -> <<"r", " ", "beh">>
      [] path = File4 -> None
      [] path = File5 -> None
      [] path = File6 -> <<"beh", "beh", "beh", "beh", "beh", "r">>

\* extract_content(..).unwrap_or_default(): the content kept for a file
ContentOf(path) ==
    IF extract_content(path) = None THEN <<>> ELSE extract_content(path)

(***************************************************************************)
(* search/query_parser.rs                                                  *)
(***************************************************************************)
Quote == "\""

\* the first index >= from at which s holds c, 0 when there is none
FirstIndexFrom(s, c, from) ==
    LET idx == {i \in from..Len(s) : s[i] = c}
    IN IF idx = {} THEN 0 ELSE CHOOSE i \in idx : \A j \in idx : i <= j

\* the captures of the regex "([^"]+)" in s, from position pos on
RECURSIVE PhraseCaptures(_, _)
PhraseCaptures(s, pos) ==
    LET i == FirstIndexFrom(s, Quote, pos)
        j == IF i = 0 THEN 0 ELSE FirstIndexFrom(s, Quote, i + 1)
    IN IF i = 0 \/ j = 0 THEN <<>>
       ELSE IF j = i + 1 THEN PhraseCaptures(s, i + 1)
       ELSE <<SubSeq(s, i + 1, j - 1)>> \o PhraseCaptures(s, j + 1)

\* phrase_regex.replace_all(s, " "), from position pos on
RECURSIVE PhraseReplaceAll(_, _)
PhraseReplaceAll(s, pos) ==
    LET i == FirstIndexFrom(s, Quote, pos)
        j == IF i = 0 THEN 0 ELSE FirstIndexFrom(s, Quote, i + 1)
    IN IF i = 0 \/ j = 0 THEN SubSeq(s, pos, Len(s))
       ELSE IF j = i + 1 THEN SubSeq(s, pos, i) \o PhraseReplaceAll(s, i + 1)
       ELSE SubSeq(s, pos, i - 1) \o <<" ">> \o PhraseReplaceAll(s, j + 1)

\* str::split_whitespace
RECURSIVE SplitWhitespace(_, _, _)
SplitWhitespace(rest, cur, acc) ==
    IF rest = <<>> THEN (IF cur = <<>> THEN acc ELSE Append(acc, cur))
    ELSE IF IsSpace(Head(rest))
         THEN SplitWhitespace(Tail(rest), <<>>,
                              IF cur = <<>> THEN acc ELSE Append(acc, cur))
         ELSE SplitWhitespace(Tail(rest), Append(cur, Head(rest)), acc)

\* str::eq_ignore_ascii_case
EqIgnoreAsciiCase(a, b) == ToLower(a) = ToLower(b)

KwAnd == <<"A", "N", "D">>
KwOr  == <<"O", "R">>
KwNot == <<"N", "O", "T">>

\* the while loop of parse_simple_query over parts[i..]
RECURSIVE ParseParts(_, _, _)
ParseParts(parts, i, acc) ==
    IF i > Len(parts) THEN acc
    ELSE LET part == parts[i] IN
      IF EqIgnoreAsciiCase(part, KwAnd)
      THEN ParseParts(parts, i + 1, [acc EXCEPT !.has_and = TRUE])
      ELSE IF EqIgnoreAsciiCase(part, KwOr)
      THEN ParseParts(parts, i + 1, acc)
      ELSE IF EqIgnoreAsciiCase(part, KwNot) \/ StartsWith(part, <<"-">>)
      THEN IF StartsWith(part, <<"-">>)
           THEN LET term == Tail(part) IN
                ParseParts(parts, i + 1,
                    IF term # <<>>
                    THEN [acc EXCEPT !.excluded = Append(@, ToLower(term))]
                    ELSE acc)
           ELSE IF i + 1 <= Len(parts)
           THEN ParseParts(parts, i + 2,
                    [acc EXCEPT !.excluded = Append(@, ToLower(parts[i + 1]))])
           ELSE ParseParts(parts, i + 1, acc)
      ELSE IF StartsWith(part, <<"+">>)
      THEN LET term == Tail(part) IN
           ParseParts(parts, i + 1,
               IF term # <<>>
               THEN [acc EXCEPT !.required = Append(@, ToLower(term))]
               ELSE acc)
      ELSE ParseParts(parts, i + 1,
               [acc EXCEPT !.optional = Append(@, ToLower(part))])

\* a faulty parse_simple_query: the AND flag is never acted on
parse_simple_query_NoDrain(query) ==
    LET captures == PhraseCaptures(query, 1)
        exact_phrases == [k \in 1..Len(captures) |-> ToLower(captures[k])]
        parts == SplitWhitespace(PhraseReplaceAll(query, 1), <<>>, <<>>)
        acc == ParseParts(parts, 1,
                   [required |-> <<>>, optional |-> <<>>, excluded |-> <<>>,
                    has_and |-> FALSE])
    IN [required_terms |-> acc.required \o exact_phrases,
        optional_terms |-> acc.optional,
        excluded_terms |-> acc.excluded,
        exact_phrases  |-> exact_phrases]

parse_simple_query(query) ==
    LET captures == PhraseCaptures(query, 1)
        exact_phrases == [k \in 1..Len(captures) |-> ToLower(captures[k])]
        remaining == PhraseReplaceAll(query, 1)
        parts == SplitWhitespace(remaining, <<>>, <<>>)
        acc == ParseParts(parts, 1,
                   [required |-> <<>>, optional |-> <<>>, excluded |-> <<>>,
                    has_and |-> FALSE])
        required == IF acc.has_and THEN acc.required \o acc.optional
                    ELSE acc.required
        optional == IF acc.has_and THEN <<>> ELSE acc.optional
    IN [required_terms |-> required \o exact_phrases,
        optional_terms |-> optional,
        excluded_terms |-> acc.excluded,
        exact_phrases  |-> exact_phrases]

\* matches_parsed_query without the rule for optional terms
matches_parsed_query_NoOptional(text, query) ==
    IF \E k \in 1..Len(query.excluded_terms) : Contains(text, query.excluded_terms[k])
    THEN FALSE
    ELSE IF \E k \in 1..Len(query.exact_phrases) : ~Contains(text, query.exact_phrases[k])
    THEN FALSE
    ELSE \A k \in 1..Len(query.required_terms) : Contains(text, query.required_terms[k])

\* a faulty matches_parsed_query: the excluded terms are not looked at
matches_parsed_query_NoExcluded(text, query) ==
    IF \E k \in 1..Len(query.exact_phrases) : ~Contains(text, query.exact_phrases[k])
    THEN FALSE
    ELSE IF \E k \in 1..Len(query.required_terms) : ~Contains(text, query.required_terms[k])
    THEN FALSE
    ELSE IF query.required_terms = <<>> /\ query.optional_terms # <<>>
    THEN \E k \in 1..Len(query.optional_terms) : Contains(text, query.optional_terms[k])
    ELSE TRUE

matches_parsed_query(text, query) ==
    IF \E k \in 1..Len(query.excluded_terms) : Contains(text, query.excluded_terms[k])
    THEN FALSE
    ELSE IF \E k \in 1..Len(query.exact_phrases) : ~Contains(text, query.exact_phrases[k])
    THEN FALSE
    ELSE IF \E k \in 1..Len(query.required_terms) : ~Contains(text, query.required_terms[k])
    THEN FALSE
    ELSE IF query.required_terms = <<>> /\ query.optional_terms # <<>>
    THEN \E k \in 1..Len(query.optional_terms) : Contains(text, query.optional_terms[k])
    ELSE TRUE

(***************************************************************************)
(* extractors/mod.rs, models.rs                                            *)
(***************************************************************************)
NoType == "None"

get_file_type(ext) ==
    CASE ext \in {"doc", "docx"} -> "word"
      [] ext = "pptx" -> "powerpoint"
      [] ext = "xlsx" -> "excel"
      [] ext \in {"txt", "md"} -> "text"
      [] OTHER -> NoType

is_supported_extension(ext) ==
    ext \in {"doc", "docx", "pptx", "xlsx", "txt", "md"}

\* FileData: path, size and last_modified are kept in the record; name,
\* file_type and content are those of the file at that path
FileName(file) == PathFileName(file.path)
FileType(file) == get_file_type(ExtOf(file.path))
FileContent(file) == ContentOf(file.path)

Min(a, b) == IF a <= b THEN a ELSE b

\* Vec::truncate / Iterator::take
Take(seq, n) == SubSeq(seq, 1, Min(n, Len(seq)))

\* Iterator::skip
Skip(seq, n) == SubSeq(seq, n + 1, Len(seq))

\* the paths of a list of FileData or of SearchResult
PathsOf(seq) == {seq[k].path : k \in 1..Len(seq)}

(***************************************************************************)
(* search/direct_search.rs                                                 *)
(***************************************************************************)
\* the code-point ranges of is_caseless_script: of the model's alphabet,
\* only U+0628 lies in them
InCaselessRange(c) == c = "beh"

is_caseless_script(s) ==
    LET sampled == Take(SelectSeq(Take(s, 20), IsAlphabetic), 5)
    IN \A k \in 1..Len(sampled) : InCaselessRange(sampled[k])

contains_ignore_case(haystack, needle_lower) ==
    IF needle_lower = <<>> THEN TRUE
    ELSE IF \A k \in 1..Len(haystack) : IsAsciiChar(haystack[k])
    THEN \E i \in 0..(Len(haystack) - Len(needle_lower)) :
            EqIgnoreAsciiCase(SubSeq(haystack, i + 1, i + Len(needle_lower)),
                              needle_lower)
    ELSE Contains(ToLower(haystack), needle_lower)

\* str::match_indices(pat).count(): non-overlapping, leftmost first; the
\* empty pattern matches at every boundary
RECURSIVE MatchCount(_, _, _)
MatchCount(s, pat, from) ==
    LET idx == {i \in from..(Len(s) - Len(pat) + 1) :
                    SubSeq(s, i, i + Len(pat) - 1) = pat}
    IN IF pat = <<>> THEN Len(s) + 2 - from
       ELSE IF idx = {} THEN 0
       ELSE LET i == CHOOSE x \in idx : \A y \in idx : x <= y
            IN 1 + MatchCount(s, pat, i + Len(pat))

\* a faulty find_matches_fast: every occurrence is recorded
find_matches_fast_NoTake(content_lower, name_lower, query_lower) ==
    LET n == MatchCount(content_lower, query_lower, 1)
    IN IF n = 0 /\ Contains(name_lower, query_lower) THEN 1 ELSE n

\* the number of Match records find_matches_fast returns
find_matches_fast(content_lower, name_lower, query_lower) ==
    LET n == Min(5, MatchCount(content_lower, query_lower, 1))
    IN IF n = 0 /\ Contains(name_lower, query_lower) THEN 1 ELSE n

\* the closure of filter_map for one file, without the early termination:
\* the SearchResult of the file (scores are tenths), or nothing
DirectResult(file, query_normalized, query_is_caseless, parsed_query) ==
    LET content == FileContent(file)
        name == FileName(file)
        content_has_match ==
            IF query_is_caseless THEN Contains(content, query_normalized)
            ELSE contains_ignore_case(content, query_normalized)
        name_has_match ==
            IF query_is_caseless THEN Contains(name, query_normalized)
            ELSE contains_ignore_case(name, query_normalized)
        content_normalized == IF query_is_caseless THEN content ELSE ToLower(content)
        name_normalized == IF query_is_caseless THEN name ELSE ToLower(name)
        combined == name_normalized \o <<" ">> \o content_normalized
        highlight_term ==
            IF parsed_query.required_terms # <<>> THEN parsed_query.required_terms[1]
            ELSE IF parsed_query.optional_terms # <<>> THEN parsed_query.optional_terms[1]
            ELSE query_normalized
        matches == find_matches_fast(content_normalized, name_normalized, highlight_term)
    IN IF ~content_has_match /\ ~name_has_match THEN <<>>
       ELSE IF /\ \/ parsed_query.required_terms # <<>>
                  \/ parsed_query.optional_terms # <<>>
                  \/ parsed_query.excluded_terms # <<>>
               /\ ~matches_parsed_query(combined, parsed_query)
       THEN <<>>
       ELSE IF matches = 0 THEN <<>>
       ELSE <<[path |-> file.path, size |-> file.size, modified |-> file.modified,
               score |-> (IF name_has_match THEN 20 ELSE 10) + matches,
               matches |-> matches]>>

\* every file's result, in the order of the files
RECURSIVE DirectResults(_, _, _, _)
DirectResults(files, query_normalized, query_is_caseless, parsed_query) ==
    IF files = <<>> THEN <<>>
    ELSE DirectResult(Head(files), query_normalized, query_is_caseless, parsed_query)
         \o DirectResults(Tail(files), query_normalized, query_is_caseless, parsed_query)

\* slice::sort_by(score descending): stable
RECURSIVE InsertByScore(_, _)
InsertByScore(sorted, r) ==
    IF sorted = <<>> THEN <<r>>
    ELSE IF Head(sorted).score >= r.score
    THEN <<Head(sorted)>> \o InsertByScore(Tail(sorted), r)
    ELSE <<r>> \o sorted

RECURSIVE SortByScore(_)
SortByScore(seq) ==
    IF seq = <<>> THEN <<>>
    ELSE InsertByScore(SortByScore(SubSeq(seq, 1, Len(seq) - 1)), seq[Len(seq)])

\* the elements of seq at the positions in keep, in order
Pick(seq, keep) == SelectSeq([k \in 1..Len(seq) |-> <<k, seq[k]>>],
                             LAMBDA e : e[1] \in keep)

\* what the parallel filter_map can collect: a worker drops a file only
\* when found_count has reached max_results, so either nothing is dropped or
\* at least max_results results were found
Collected(all, max_results) ==
    {[k \in 1..Len(Pick(all, keep)) |-> Pick(all, keep)[k][2]] :
        keep \in {K \in SUBSET (1..Len(all)) :
                     K = 1..Len(all) \/ Cardinality(K) >= max_results}}

\* search_direct_content: the result lists a call can return
search_direct_content(query, files, max_results, file_path_filter) ==
    LET query_is_caseless == is_caseless_script(query)
        query_normalized == IF query_is_caseless THEN query ELSE ToLower(query)
        parsed_query == parse_simple_query(query_normalized)
        files_to_search ==
            IF file_path_filter # None
            THEN SelectSeq(files, LAMBDA f : f.path = file_path_filter)
            ELSE files
        all == DirectResults(files_to_search, query_normalized, query_is_caseless,
                             parsed_query)
    IN {Take(SortByScore(c), max_results) : c \in Collected(all, max_results)}

(***************************************************************************)
(* search/filters.rs                                                       *)
(***************************************************************************)
\* SearchFilters with every field None
NoFilters ==
    [file_types |-> None, date_from |-> NoNum, date_to |-> NoNum,
     min_size |-> NoNum, max_size |-> NoNum, folder_path |-> None,
     file_path |-> None, max_results |-> NoNum, offset |-> NoNum]

\* a faulty closure: the upper limit of the size is exclusive
PassesFilters_MaxExclusive(r, filters) ==
    /\ ~(/\ filters.file_types # None
         /\ filters.file_types # <<>>
         /\ \A k \in 1..Len(filters.file_types) :
                filters.file_types[k] # get_file_type(ExtOf(r.path)))
    /\ ~(filters.date_from # NoNum /\ r.modified < filters.date_from)
    /\ ~(filters.date_to # NoNum /\ r.modified > filters.date_to)
    /\ ~(filters.min_size # NoNum /\ r.size < filters.min_size)
    /\ ~(filters.max_size # NoNum /\ r.size >= filters.max_size)
    /\ ~(filters.folder_path # None /\ ~StartsWith(r.path, filters.folder_path))

\* the closure of apply_filters for one result
PassesFilters(r, filters) ==
    /\ ~(/\ filters.file_types # None
         /\ filters.file_types # <<>>
         /\ \A k \in 1..Len(filters.file_types) :
                filters.file_types[k] # get_file_type(ExtOf(r.path)))
    /\ ~(filters.date_from # NoNum /\ r.modified < filters.date_from)
    /\ ~(filters.date_to # NoNum /\ r.modified > filters.date_to)
    /\ ~(filters.min_size # NoNum /\ r.size < filters.min_size)
    /\ ~(filters.max_size # NoNum /\ r.size > filters.max_size)
    /\ ~(filters.folder_path # None /\ ~StartsWith(r.path, filters.folder_path))

apply_filters(results, filters) ==
    SelectSeq(results, LAMBDA r : PassesFilters(r, filters))

(***************************************************************************)
(* search/fts5_search.rs                                                   *)
(***************************************************************************)
\* the tokens of the unicode61 tokenizer: maximal alphanumeric runs, folded
RECURSIVE Tokens(_, _, _)
Tokens(rest, cur, acc) ==
    IF rest = <<>> THEN (IF cur = <<>> THEN acc ELSE acc \cup {cur})
    ELSE IF ~IsAlphanumeric(Head(rest))
         THEN Tokens(Tail(rest), <<>>, IF cur = <<>> THEN acc ELSE acc \cup {cur})
         ELSE Tokens(Tail(rest), Append(cur, LowerChar(Head(rest))), acc)

TokensOf(s) == Tokens(s, <<>>, {})

\* the tokens of the indexed columns (path, name, content) of a document
DocTokens(path) ==
    TokensOf(path) \cup TokensOf(PathFileName(path)) \cup TokensOf(ContentOf(path))

\* files_fts MATCH ?1 for a query of bare words: every word is a token of
\* the row
FtsMatch(row, fts_query) ==
    /\ TokensOf(fts_query) # {}
    /\ TokensOf(fts_query) \subseteq DocTokens(row.path)

\* the placeholder Utc::now() of an FTS5 result: later than every mtime
NowTs == 9

\* str::trim
RECURSIVE TrimStart(_)
TrimStart(s) == IF s # <<>> /\ IsSpace(Head(s)) THEN TrimStart(Tail(s)) ELSE s

RECURSIVE TrimEnd(_)
TrimEnd(s) ==
    IF s # <<>> /\ IsSpace(s[Len(s)]) THEN TrimEnd(SubSeq(s, 1, Len(s) - 1)) ELSE s

Trim(s) == TrimEnd(TrimStart(s))

\* path.starts_with(excl) for some excluded folder
UnderExcludedPrefix(path, excluded_folders) ==
    \E excl \in excluded_folders : StartsWith(path, excl)

\* search_fts5 when the statement runs: rows is the files table in rowid
\* order
search_fts5(rows, query, max_results, offset, file_path_filter, excluded_folders) ==
    LET fts_query == Trim(query)
        matching == SelectSeq(rows, LAMBDA row :
                        /\ FtsMatch(row, fts_query)
                        /\ file_path_filter # None => row.path = file_path_filter)
        limited == Take(Skip(matching, offset), max_results)
        kept == SelectSeq(limited, LAMBDA row :
                    ~(excluded_folders # {}
                      /\ UnderExcludedPrefix(row.path, excluded_folders)))
    IN IF fts_query = <<>> THEN <<>>
       ELSE [k \in 1..Len(kept) |->
                [path |-> kept[k].path, size |-> 0, modified |-> NowTs,
                 score |-> 10, matches |-> 1]]

(***************************************************************************)
(* search/tantivy_search.rs, search/mod.rs                                 *)
(***************************************************************************)
\* the number of Match records find_matches_in_content returns
find_matches_in_content(content, name, query_lower) ==
    LET n == Min(5, MatchCount(ToLower(content), query_lower, 1))
    IN IF n = 0 /\ Contains(ToLower(name), query_lower) THEN 1 ELSE n

\* TopDocs::with_limit(100)
TANTIVY_LIMIT == 100

\* the query parsed over the name and content fields: some word of the
\* query is a token of the document
TantivyMatch(doc, query) ==
    TokensOf(query) \cap
        (TokensOf(PathFileName(doc.path)) \cup TokensOf(ContentOf(doc.path))) # {}

\* search_with_tantivy when the query parses: docs is the committed index
search_with_tantivy(query, docs) ==
    LET top_docs == Take(SelectSeq(docs, LAMBDA d : TantivyMatch(d, query)),
                         TANTIVY_LIMIT)
        results == [k \in 1..Len(top_docs) |->
                       [path |-> top_docs[k].path, size |-> top_docs[k].size,
                        modified |-> top_docs[k].modified, score |-> 10,
                        matches |-> find_matches_in_content(
                                        ContentOf(top_docs[k].path),
                                        PathFileName(top_docs[k].path),
                                        ToLower(query))]]
    IN Take(SelectSeq(results, LAMBDA r : r.matches # 0), TANTIVY_LIMIT)

(***************************************************************************)
(* commands/search.rs                                                      *)
(***************************************************************************)
MIN_TANTIVY_RESULTS == 5
DEFAULT_MAX_RESULTS == 100
\* the result cap of a single-file search
SINGLE_FILE_MAX_RESULTS == 1000

\* results.retain(not under an excluded prefix)
RetainNotExcluded(results, excluded) ==
    SelectSeq(results, LAMBDA r : ~UnderExcludedPrefix(r.path, excluded))

\* a faulty merge: the merged list is ranked again by score
Supplement_Ranked(results, direct_results) ==
    SortByScore(results \o SelectSeq(direct_results,
                                     LAMBDA dr : dr.path \notin PathsOf(results)))

\* the direct results whose path the Tantivy results do not hold
Supplement(results, direct_results) ==
    results \o SelectSeq(direct_results, LAMBDA dr : dr.path \notin PathsOf(results))

\* What a search_index call returns, and what it ran.  fts_ready: the data
\* directory is set and docufind.db opens; fts_error / tantivy_error: the
\* engine rejects the query.  The values are the possible outcomes, one for
\* each list the direct search can return.
search_index(query, filters, files, rows, docs, excluded, fts_ready, fts_error, tantivy_error) ==
    LET max_results == IF filters.max_results = NoNum THEN DEFAULT_MAX_RESULTS
                       ELSE filters.max_results
        offset == IF filters.offset = NoNum THEN 0 ELSE filters.offset
        file_path_filter == filters.file_path
        used_fts5 == fts_ready /\ ~fts_error
        has_non_ascii == \E k \in 1..Len(query) : ~IsAsciiChar(query[k])
        Page(results) == Take(Skip(apply_filters(results, filters), offset),
                              max_results)
        Exclude(results) ==
            IF file_path_filter = None /\ excluded # {}
            THEN RetainNotExcluded(results, excluded)
            ELSE results
        Finish(results, engines) ==
            [ok |-> TRUE, results |-> Page(results), engines |-> engines,
             logged |-> file_path_filter = None]
        tantivy_results == search_with_tantivy(query, docs)
    IN IF IsBlank(query)
       THEN {[ok |-> TRUE, results |-> <<>>, engines |-> {}, logged |-> FALSE]}
       ELSE IF used_fts5
       THEN {Finish(search_fts5(rows, query, max_results + offset, 0,
                                file_path_filter, excluded), {"fts5"})}
       ELSE IF file_path_filter # None
       THEN {Finish(Exclude(d), {"direct"}) :
                d \in search_direct_content(query, files, SINGLE_FILE_MAX_RESULTS,
                                            file_path_filter)}
       ELSE IF has_non_ascii
       THEN {Finish(Exclude(d), {"direct"}) :
                d \in search_direct_content(query, files, max_results + offset, None)}
       ELSE IF tantivy_error
       THEN {[ok |-> FALSE, results |-> <<>>, engines |-> {"tantivy"},
              logged |-> FALSE]}
       ELSE IF Len(tantivy_results) < MIN_TANTIVY_RESULTS
       THEN {Finish(Exclude(Supplement(tantivy_results, d)), {"tantivy", "direct"}) :
                d \in search_direct_content(query, files, max_results, None)}
       ELSE {Finish(Exclude(tantivy_results), {"tantivy"})}

(***************************************************************************)
(* Bounds of the model                                                     *)
(***************************************************************************)
\* concurrent toggle_folder_exclusion calls
MaxTogglers == 2
\* the entries the DocumentTable may grow to (the background .doc scan can
\* repeat while no database exists)
MaxIndexLen == 4
\* the latest modification time a file of the disk takes
MaxMtime == 2
\* the commands invoked in one run of the lock-level specification
MaxCalls == 2

(***************************************************************************)
(* State (state.rs AppState, the SQLite file, the disk)                    *)
(***************************************************************************)
VARIABLES
    index,             \* AppState.index: Vec<FileData>
    watched_folders,   \* AppState.watched_folders
    excluded_folders,  \* AppState.excluded_folders
    search_history,    \* AppState.search_history, most recent first
    data_dir,          \* AppState.data_dir is Some(path)
    db_conn,           \* AppState.db is Some(connection)
    db,                \* docufind.db: the tables of init_database
    disk,              \* the files on disk: existence, size, mtime
    scan,              \* the scan_folder call in flight
    docscan,           \* scan_for_new_doc_files and its background thread
    toggle,            \* toggle_folder_exclusion calls in flight
    ret,               \* the search_index call that has just returned
    calls,             \* the commands in flight: their step and their guard on index
    pdf_queue,         \* AppState.pdf_queue: the queue and its counters
    now,               \* Utc::now(), in ticks
    out                \* the parser, ledger or direct-scan call that has just returned

vars == <<index, watched_folders, excluded_folders, search_history, data_dir,
          db_conn, db, disk, scan, docscan, toggle, calls, pdf_queue, ret, now,
          out>>

Togglers == 1..MaxTogglers

\* the commands of one run, each on its own thread of the async runtime
Calls == 1..MaxCalls

\* a command that has not been invoked: no step taken, no guard on index
CallIdle == [op |-> "none", at |-> 0, holds |-> "none", path |-> None,
             existing_files_map |-> <<>>, new_files |-> <<>>, folders |-> {},
             excluded |-> {}]

ToggleIdle == [pc |-> "idle", path |-> None, is_currently_excluded |-> FALSE,
               result |-> FALSE]

ScanIdle == [pc |-> "idle", path |-> None, force_reindex |-> FALSE,
             existing_files_map |-> <<>>, new_files |-> <<>>, extracted |-> {}]

DocScanIdle == [pc |-> "idle", folders |-> {}, indexed_paths |-> {},
                data_dir |-> FALSE, new_files |-> <<>>]

\* PdfQueue::new()
PdfQueueNew == [queue |-> <<>>, processing_count |-> 0, completed_count |-> 0,
                total_queued |-> 0, is_running |-> FALSE]

\* no search_index call has just returned
NoRet == [called |-> FALSE, query |-> <<>>, filters |-> NoFilters, ok |-> TRUE,
          results |-> <<>>, engines |-> {}, logged |-> FALSE]

\* no parser, ledger or direct-scan call has just returned
NoOut == [op |-> "none"]

\* the database file before the first save: no file, hence no tables
NoDb == [exists |-> FALSE, tables |-> FALSE, files |-> <<>>, folders |-> {}, exclusions |-> {},
         schema_version |-> 0, doc_migration_done |-> FALSE]

\* the size of each file when the program starts
InitialSize(path) ==
    CASE path = File1 -> 1
      [] path = File2 -> 2
      [] path = File3 -> 3
      [] path = File4 -> 1
      [] path = File5 -> 1

\* AppState::default(), no database file, and the files of the disk
AppInit ==
    /\ index = <<>>
    /\ watched_folders = {}
    /\ excluded_folders = {}
    /\ data_dir = FALSE
    /\ db_conn = FALSE
    /\ db = NoDb
    /\ disk = [p \in Files \cup {File4, File5} |->
                  [exists |-> p \in Files, size |-> InitialSize(p), modified |-> 1]]
    /\ scan = ScanIdle
    /\ docscan = DocScanIdle
    /\ toggle = [t \in Togglers |-> ToggleIdle]
    /\ calls = [c \in Calls |-> CallIdle]
    /\ pdf_queue = PdfQueueNew
    /\ ret = NoRet

Init == AppInit /\ search_history = <<>> /\ now = 0 /\ out = NoOut

(***************************************************************************)
(* commands/persistence.rs: the database                                   *)
(***************************************************************************)
CURRENT_SCHEMA_VERSION == 2

\* init_database: CREATE TABLE IF NOT EXISTS ..., schema_version '1' for a
\* new file
init_database(d) ==
    IF d.exists /\ d.tables THEN d
    ELSE [NoDb EXCEPT !.exists = TRUE, !.tables = TRUE, !.schema_version = 1]

\* Connection::open(&db_path): a file that does not exist is created empty
Opened(d) == IF d.exists THEN d ELSE [d EXCEPT !.exists = TRUE]

\* get_schema_version: the metadata row, 1 when the query fails
get_schema_version(d) == IF d.tables THEN d.schema_version ELSE 1

\* a last_modified column as save_index_internal writes it (to_rfc3339) and
\* as the background .doc scan writes it (timestamp(), an integer)
Rfc3339(t) == <<"rfc3339", t>>
UnixSeconds(t) == <<"unix", t>>

\* DateTime::parse_from_rfc3339(column).unwrap_or_else(Utc::now)
ParseLastModified(column) ==
    IF column[1] = "rfc3339" THEN column[2] ELSE NowTs

HasDuplicatePaths(files) ==
    \E i, j \in 1..Len(files) : i < j /\ files[i].path = files[j].path

\* save_index_internal: the database it leaves.  A second row for a path
\* violates the PRIMARY KEY of files: the transaction is rolled back, and
\* only init_database has taken effect.
SavedDb(files, folders, excluded) ==
    IF ~data_dir THEN db
    ELSE IF HasDuplicatePaths(files) THEN init_database(db)
    ELSE [exists |-> TRUE,
          tables |-> TRUE,
          files |-> [k \in 1..Len(files) |->
                        [path |-> files[k].path, size |-> files[k].size,
                         last_modified |-> Rfc3339(files[k].modified)]],
          folders |-> folders,
          exclusions |-> excluded,
          schema_version |-> CURRENT_SCHEMA_VERSION,
          doc_migration_done |-> db.doc_migration_done]

\* save_index_internal: whether state.db holds a connection afterwards
SavedConn(files) ==
    IF ~data_dir \/ HasDuplicatePaths(files) THEN db_conn ELSE TRUE

\* AppState::set_data_dir, called when the application starts
SetDataDir ==
    /\ ~data_dir
    /\ data_dir' = TRUE
    /\ ret' = NoRet
    /\ UNCHANGED <<now, out, calls, pdf_queue>>
    /\ UNCHANGED <<index, watched_folders, excluded_folders, search_history,
                   db_conn, db, disk, scan, docscan, toggle>>

\* save_index
SaveIndex ==
    /\ db' = SavedDb(index, watched_folders, excluded_folders)
    /\ db_conn' = SavedConn(index)
    /\ ret' = NoRet
    /\ UNCHANGED <<now, out, calls, pdf_queue>>
    /\ UNCHANGED <<index, watched_folders, excluded_folders, search_history, data_dir,
                   disk, scan, docscan, toggle>>

\* load_index
LoadIndex ==
    LET valid_folders == db.folders
        valid_rows == SelectSeq(db.files, LAMBDA row :
                          /\ \E folder \in valid_folders : StartsWith(row.path, folder)
                          /\ disk[row.path].exists)
    IN /\ data_dir
       /\ db.exists
       /\ IF get_schema_version(db) < CURRENT_SCHEMA_VERSION
          THEN /\ db' = NoDb
               /\ UNCHANGED <<index, watched_folders, excluded_folders, db_conn>>
          ELSE IF valid_folders = {}
          THEN UNCHANGED <<index, watched_folders, excluded_folders, db_conn, db>>
          ELSE /\ index' = [k \in 1..Len(valid_rows) |->
                               [path |-> valid_rows[k].path,
                                size |-> valid_rows[k].size,
                                modified |->
                                    ParseLastModified(valid_rows[k].last_modified)]]
               /\ watched_folders' = valid_folders
               /\ excluded_folders' = db.exclusions
               /\ db_conn' = TRUE
               /\ UNCHANGED db
       /\ ret' = NoRet
       /\ UNCHANGED <<now, out, calls, pdf_queue>>
       /\ UNCHANGED <<search_history, data_dir, disk, scan, docscan, toggle>>

\* clear_index
ClearIndex ==
    /\ index' = <<>>
    /\ watched_folders' = {}
    /\ excluded_folders' = {}
    /\ db' = IF db_conn
             THEN [db EXCEPT !.files = <<>>, !.folders = {}, !.exclusions = {}]
             ELSE db
    /\ ret' = NoRet
    /\ UNCHANGED <<now, out, calls, pdf_queue>>
    /\ UNCHANGED <<search_history, data_dir, db_conn, disk, scan, docscan, toggle>>

(***************************************************************************)
(* commands/scanning.rs                                                    *)
(***************************************************************************)
\* the order in which WalkDir yields the files of the disk
WalkOrder == <<File1, File2, File3, File4, File5>>

\* the files WalkDir finds under a folder
Walk(folder) ==
    SelectSeq(WalkOrder, LAMBDA p :
        /\ disk[p].exists
        /\ StartsWith(p, folder \o <<Sep>>))

\* the last entry of the DocumentTable for a path: what collecting into a
\* HashMap keeps
LastEntry(files, path) ==
    files[CHOOSE k \in 1..Len(files) :
              /\ files[k].path = path
              /\ \A j \in 1..Len(files) : files[j].path = path => j <= k]

\* a faulty incremental check: the two fields of the map compared
\* the wrong way round
IsUnchanged_Swapped(existing_files_map, path, size, modified) ==
    /\ path \in DOMAIN existing_files_map
    /\ existing_files_map[path][1] = modified
    /\ existing_files_map[path][2] = size

\* the incremental check: the file is in the map with this size and mtime
IsUnchanged(existing_files_map, path, size, modified) ==
    /\ path \in DOMAIN existing_files_map
    /\ existing_files_map[path][1] = size
    /\ existing_files_map[path][2] = modified

\* scan_folder, lines 21-43: the lookup map of the entries indexed so far
ScanStart(folders, forces) ==
    \E path \in folders, force_reindex \in forces :
        /\ scan.pc = "idle"
        /\ scan' = [ScanIdle EXCEPT
               !.pc = "walk", !.path = path, !.force_reindex = force_reindex,
               !.existing_files_map =
                   IF force_reindex THEN <<>>
                   ELSE [p \in PathsOf(index) |->
                            <<LastEntry(index, p).size,
                              LastEntry(index, p).modified>>]]
        /\ ret' = NoRet
        /\ UNCHANGED <<now, out, calls, pdf_queue>>
        /\ UNCHANGED <<index, watched_folders, excluded_folders, search_history, data_dir,
                       db_conn, db, disk, docscan, toggle>>

\* scan_folder, lines 45-180: the supported files found under the folder that
\* are not empty and not unchanged, each with what the closure reads of it
Produced(path, existing_files_map) ==
    LET entries == SelectSeq(Walk(path), LAMBDA p : is_supported_extension(ExtOf(p)))
        changed == SelectSeq(entries, LAMBDA p :
                       /\ get_file_type(ExtOf(p)) # NoType
                       /\ disk[p].size # 0
                       /\ ~IsUnchanged(existing_files_map, p, disk[p].size,
                                       disk[p].modified))
    IN [k \in 1..Len(changed) |->
           [path |-> changed[k], size |-> disk[changed[k]].size,
            modified |-> disk[changed[k]].modified]]

\* scan_folder, lines 45-197: discover the supported files, extract the new
\* and the modified ones, add the folder to the watched list
ScanWalk ==
    /\ scan.pc = "walk"
    /\ scan' = [scan EXCEPT
           !.pc = "merge",
           !.new_files = Produced(scan.path, scan.existing_files_map),
           !.extracted = PathsOf(Produced(scan.path, scan.existing_files_map))]
    /\ watched_folders' = watched_folders \cup {scan.path}
    /\ ret' = NoRet
    /\ UNCHANGED <<now, out, calls, pdf_queue>>
    /\ UNCHANGED <<index, excluded_folders, search_history, data_dir, db_conn, db, disk,
                   docscan, toggle>>

\* a faulty merge: the entries of the re-produced paths are kept
MergeNewFiles_NoRetain(files, new_files) == files \o new_files

\* the DocumentTable after the update of lines 222-232
MergeNewFiles(files, new_files) ==
    IF PathsOf(new_files) # {}
    THEN SelectSeq(files, LAMBDA f : f.path \notin PathsOf(new_files)) \o new_files
    ELSE files

\* scan_folder, lines 222-232
ScanMerge ==
    /\ scan.pc = "merge"
    /\ index' = MergeNewFiles(index, scan.new_files)
    /\ scan' = [scan EXCEPT !.pc = "save"]
    /\ ret' = NoRet
    /\ UNCHANGED <<now, out, calls, pdf_queue>>
    /\ UNCHANGED <<watched_folders, excluded_folders, search_history, data_dir, db_conn, db,
                   disk, docscan, toggle>>

\* scan_folder, lines 247-260: the auto-save, and the return of new_files
ScanSave ==
    /\ scan.pc = "save"
    /\ db' = SavedDb(index, watched_folders, excluded_folders)
    /\ db_conn' = SavedConn(index)
    /\ scan' = ScanIdle
    /\ ret' = NoRet
    /\ UNCHANGED <<now, out, calls, pdf_queue>>
    /\ UNCHANGED <<index, watched_folders, excluded_folders, search_history, data_dir, disk,
                   docscan, toggle>>

\* remove_folder
RemoveFolder(folders) ==
    \E path \in folders :
        LET path_prefix == IF path[Len(path)] = Sep THEN path ELSE path \o <<Sep>>
            kept == SelectSeq(index, LAMBDA f :
                        ~StartsWith(f.path, path_prefix) /\ f.path # path)
        IN /\ watched_folders' = watched_folders \ {path}
           /\ excluded_folders' = excluded_folders \ {path}
           /\ index' = kept
           /\ db' = SavedDb(kept, watched_folders \ {path}, excluded_folders \ {path})
           /\ db_conn' = SavedConn(kept)
           /\ ret' = NoRet
           /\ UNCHANGED <<now, out, calls, pdf_queue>>
           /\ UNCHANGED <<search_history, data_dir, disk, scan, docscan, toggle>>

(***************************************************************************)
(* commands/files.rs                                                       *)
(***************************************************************************)
\* delete_file: the file goes to the trash and leaves the DocumentTable
DeleteFile(files) ==
    \E file_path \in files :
        /\ disk[file_path].exists
        /\ disk' = [disk EXCEPT ![file_path].exists = FALSE]
        /\ index' = SelectSeq(index, LAMBDA f : f.path # file_path)
        /\ ret' = NoRet
        /\ UNCHANGED <<now, out, calls, pdf_queue>>
        /\ UNCHANGED <<watched_folders, excluded_folders, search_history, data_dir, db_conn,
                       db, scan, docscan, toggle>>

\* a file of the disk is written by another program
ModifyFile(files) ==
    \E p \in files, grow \in BOOLEAN :
        /\ disk[p].exists
        /\ disk[p].modified < MaxMtime
        /\ disk' = [disk EXCEPT ![p].modified = @ + 1,
                                ![p].size = IF grow THEN @ + 1 ELSE @]
        /\ ret' = NoRet
        /\ UNCHANGED <<now, out, calls, pdf_queue>>
        /\ UNCHANGED <<index, watched_folders, excluded_folders, search_history, data_dir,
                       db_conn, db, scan, docscan, toggle>>

(***************************************************************************)
(* commands/persistence.rs: scan_for_new_doc_files                         *)
(***************************************************************************)
\* is_doc_migration_done: the metadata row is there
is_doc_migration_done == data_dir /\ db.exists /\ db.tables /\ db.doc_migration_done

\* mark_doc_migration_done
MarkedDone(d) ==
    IF data_dir THEN [init_database(d) EXCEPT !.doc_migration_done = TRUE] ELSE d

\* INSERT OR REPLACE INTO metadata ('doc_migration_done') on a connection
\* opened by the thread, which holds the data directory read at the spawn: a
\* file without tables takes no row
ThreadMarkedDone(d) ==
    IF ~docscan.data_dir THEN d
    ELSE IF d.exists /\ d.tables THEN [d EXCEPT !.doc_migration_done = TRUE]
    ELSE Opened(d)

\* INSERT OR REPLACE INTO files for each new file, in order
RECURSIVE InsertOrReplace(_, _)
InsertOrReplace(rows, new_files) ==
    IF new_files = <<>> THEN rows
    ELSE InsertOrReplace(
             Append(SelectSeq(rows, LAMBDA row : row.path # Head(new_files).path),
                    [path |-> Head(new_files).path, size |-> Head(new_files).size,
                     last_modified |-> UnixSeconds(Head(new_files).modified)]),
             Tail(new_files))

\* the paths of the rows with file_type = 'word'
DbWordPaths ==
    IF ~data_dir THEN {}
    ELSE
    {db.files[k].path : k \in {j \in 1..Len(db.files) :
                                  get_file_type(ExtOf(db.files[j].path)) = "word"}}

\* the watched folders in the order the thread visits them
FolderOrder == <<FolderD, FolderP, FolderP2, FolderS>>

\* the .doc files the thread finds, folder after folder
RECURSIVE NewDocFiles(_, _, _)
NewDocFiles(k, folders, indexed_paths) ==
    IF k > Len(FolderOrder) THEN <<>>
    ELSE (IF FolderOrder[k] \in folders
          THEN SelectSeq(Walk(FolderOrder[k]), LAMBDA p :
                   ExtOf(p) = "doc" /\ p \notin indexed_paths)
          ELSE <<>>)
         \o NewDocFiles(k + 1, folders, indexed_paths)

\* scan_for_new_doc_files, lines 563-640: the command, up to the spawn
DocScanStart ==
    /\ docscan.pc = "idle"
    /\ ~is_doc_migration_done
    /\ IF watched_folders = {}
       THEN /\ db' = MarkedDone(db)
            /\ UNCHANGED docscan
       ELSE /\ docscan' = [DocScanIdle EXCEPT
                   !.pc = "walk", !.folders = watched_folders,
                   !.indexed_paths = PathsOf(index) \cup DbWordPaths,
                   !.data_dir = data_dir]
            /\ db' = IF data_dir THEN Opened(db) ELSE db
    /\ ret' = NoRet
    /\ UNCHANGED <<now, out, calls, pdf_queue>>
    /\ UNCHANGED <<index, watched_folders, excluded_folders, search_history, data_dir,
                   db_conn, disk, scan, toggle>>

\* the thread, lines 643-760: find the .doc files not indexed yet and extract
\* them
DocScanWalk ==
    LET new_doc_files == SelectSeq(NewDocFiles(1, docscan.folders,
                                               docscan.indexed_paths),
                                   LAMBDA p : disk[p].size # 0)
    IN /\ docscan.pc = "walk"
       /\ IF new_doc_files = <<>>
          THEN /\ db' = ThreadMarkedDone(db)
               /\ docscan' = DocScanIdle
          ELSE /\ docscan' = [docscan EXCEPT
                      !.pc = "extend",
                      !.new_files = [k \in 1..Len(new_doc_files) |->
                          [path |-> new_doc_files[k],
                           size |-> disk[new_doc_files[k]].size,
                           modified |-> disk[new_doc_files[k]].modified]]]
               /\ UNCHANGED db
       /\ ret' = NoRet
       /\ UNCHANGED <<now, out, calls, pdf_queue>>
       /\ UNCHANGED <<index, watched_folders, excluded_folders, search_history, data_dir,
                      db_conn, disk, scan, toggle>>

\* the thread, lines 784-788: index.extend(new_files)
DocScanExtend ==
    /\ docscan.pc = "extend"
    /\ Len(index) + Len(docscan.new_files) <= MaxIndexLen
    /\ index' = index \o docscan.new_files
    /\ docscan' = [docscan EXCEPT !.pc = "persist"]
    /\ ret' = NoRet
    /\ UNCHANGED <<now, out, calls, pdf_queue>>
    /\ UNCHANGED <<watched_folders, excluded_folders, search_history, data_dir, db_conn, db,
                   disk, scan, toggle>>

\* the thread, lines 793-820: the rows of the new files, and the mark
DocScanPersist ==
    /\ docscan.pc = "persist"
    /\ db' = IF ~docscan.data_dir THEN db
             ELSE IF db.exists /\ db.tables
             THEN [db EXCEPT !.files = InsertOrReplace(db.files, docscan.new_files),
                             !.doc_migration_done = TRUE]
             ELSE Opened(db)
    /\ docscan' = DocScanIdle
    /\ ret' = NoRet
    /\ UNCHANGED <<now, out, calls, pdf_queue>>
    /\ UNCHANGED <<index, watched_folders, excluded_folders, search_history, data_dir,
                   db_conn, disk, scan, toggle>>

(***************************************************************************)
(* state.rs: the RwLock on index, and the commands statement by statement  *)
(***************************************************************************)
\* the statements of a command that touch shared state, in the order of its
\* code (scanning.rs 15-260 and 264-292, files.rs 38-56, persistence.rs
\* 281-468 and 472-508)
Program(op) ==
    CASE op = "scan_folder" -> <<"map", "extract", "retain", "extend", "save">>
      [] op = "delete_file" -> <<"trash", "retain", "commit">>
      [] op = "remove_folder" -> <<"unwatch", "retain", "save">>
      [] op = "load_index" -> <<"query", "replace", "folders">>
      [] op = "clear_index" -> <<"clear", "unwatch", "delete">>

\* a faulty scoping: the guard is taken when the command starts and dropped
\* when it returns
Guarded_WholeCommand(op) == {Program(op)[k] : k \in 1..Len(Program(op))}

\* the statements inside the block of the command's state.index.write()
Guarded(op) ==
    CASE op = "scan_folder" -> {"retain", "extend"}
      [] op = "delete_file" -> {"retain"}
      [] op = "remove_folder" -> {"retain"}
      [] op = "load_index" -> {"replace"}
      [] op = "clear_index" -> {"clear"}

\* the statement a command in flight is at
StepOf(c) == Program(calls[c].op)[calls[c].at]

\* a faulty lock: read() does not wait for the writer
CanRead_Always(c) == TRUE

\* RwLock::read(): granted while no other thread holds the write guard
CanRead(c) == \A d \in Calls \ {c} : calls[d].holds # "write"

\* RwLock::write(): granted while no other thread holds a guard
CanWrite(c) == \A d \in Calls \ {c} : calls[d].holds = "none"

\* the command after its statement: the next one, the guard dropped at the
\* end of its block
Advanced(call, fields) ==
    [fields EXCEPT
        !.at = call.at + 1,
        !.holds = IF /\ call.at + 1 <= Len(Program(call.op))
                     /\ Program(call.op)[call.at + 1] \in Guarded(call.op)
                  THEN call.holds ELSE "none"]

\* the command returns: Ok(..) after its last statement, Err(..) before
Returned(call) == [call EXCEPT !.at = Len(Program(call.op)) + 1, !.holds = "none"]

\* the front end invokes a command
CallStart(c, op, paths) ==
    \E path \in paths :
        /\ calls[c].op = "none"
        /\ calls' = [calls EXCEPT ![c] = [CallIdle EXCEPT !.op = op, !.at = 1,
                                                          !.path = path]]
        /\ ret' = NoRet
        /\ UNCHANGED <<now, out, pdf_queue>>
        /\ UNCHANGED <<index, watched_folders, excluded_folders, search_history, data_dir,
                       db_conn, db, disk, scan, docscan, toggle>>

\* state.index.write(): the command waits for the guard of its block
Acquire(c) ==
    /\ calls[c].op # "none"
    /\ calls[c].at <= Len(Program(calls[c].op))
    /\ StepOf(c) \in Guarded(calls[c].op)
    /\ calls[c].holds = "none"
    /\ CanWrite(c)
    /\ calls' = [calls EXCEPT ![c].holds = "write"]
    /\ ret' = NoRet
    /\ UNCHANGED <<now, out, pdf_queue>>
    /\ UNCHANGED <<index, watched_folders, excluded_folders, search_history, data_dir,
                   db_conn, db, disk, scan, docscan, toggle>>

\* a statement on the DocumentTable: scanning.rs 224-231 (retain, then
\* extend) and 280-285, files.rs 45, persistence.rs 414 and 475
TableStep(c) ==
    LET call == calls[c]
        new_paths == PathsOf(call.new_files)
        path_prefix == IF call.path[Len(call.path)] = Sep THEN call.path
                       ELSE call.path \o <<Sep>>
    IN /\ call.op # "none"
       /\ call.at <= Len(Program(call.op))
       /\ StepOf(c) \in {"retain", "extend", "replace", "clear"}
       /\ StepOf(c) \in Guarded(call.op) => call.holds = "write"
       /\ \/ /\ call.op = "scan_folder" /\ StepOf(c) = "retain"
             /\ index' = IF new_paths # {}
                         THEN SelectSeq(index, LAMBDA f : f.path \notin new_paths)
                         ELSE index
          \/ /\ call.op = "scan_folder" /\ StepOf(c) = "extend"
             /\ index' = IF new_paths # {} THEN index \o call.new_files ELSE index
          \/ /\ call.op = "delete_file" /\ StepOf(c) = "retain"
             /\ index' = SelectSeq(index, LAMBDA f : f.path # call.path)
          \/ /\ call.op = "remove_folder" /\ StepOf(c) = "retain"
             /\ index' = SelectSeq(index, LAMBDA f :
                             ~StartsWith(f.path, path_prefix) /\ f.path # call.path)
          \/ /\ StepOf(c) = "replace"
             /\ index' = call.new_files
          \/ /\ StepOf(c) = "clear"
             /\ index' = <<>>
       /\ calls' = [calls EXCEPT ![c] = Advanced(call, call)]
       /\ ret' = NoRet
       /\ UNCHANGED <<now, out, pdf_queue>>
       /\ UNCHANGED <<watched_folders, excluded_folders, search_history, data_dir, db_conn,
                      db, disk, scan, docscan, toggle>>

\* a statement outside the DocumentTable: the lookup map and the extraction
\* of scan_folder, save_index_internal, the trash, the folder sets, the
\* queries of load_index and clear_index
CommandStep(c) ==
    LET call == calls[c]
        valid_rows == SelectSeq(db.files, LAMBDA row :
                          /\ \E folder \in db.folders : StartsWith(row.path, folder)
                          /\ disk[row.path].exists)
    IN /\ call.op # "none"
       /\ call.at <= Len(Program(call.op))
       /\ StepOf(c) \notin {"retain", "extend", "replace", "clear"}
       /\ StepOf(c) \in Guarded(call.op) => call.holds = "write"
       /\ \/ /\ StepOf(c) = "map"
             /\ CanRead(c)
             /\ \E force_reindex \in BOOLEAN :
                    calls' = [calls EXCEPT ![c] = Advanced(call, [call EXCEPT
                        !.existing_files_map =
                            IF force_reindex THEN <<>>
                            ELSE [p \in PathsOf(index) |->
                                     <<LastEntry(index, p).size,
                                       LastEntry(index, p).modified>>]])]
             /\ UNCHANGED <<watched_folders, excluded_folders, db, db_conn, disk>>
          \/ /\ StepOf(c) = "extract"
             /\ calls' = [calls EXCEPT ![c] = Advanced(call, [call EXCEPT
                    !.new_files = Produced(call.path, call.existing_files_map)])]
             /\ watched_folders' = watched_folders \cup {call.path}
             /\ UNCHANGED <<excluded_folders, db, db_conn, disk>>
          \/ /\ StepOf(c) = "save"
             /\ CanRead(c)
             /\ db' = SavedDb(index, watched_folders, excluded_folders)
             /\ db_conn' = SavedConn(index)
             /\ calls' = [calls EXCEPT ![c] = Advanced(call, call)]
             /\ UNCHANGED <<watched_folders, excluded_folders, disk>>
          \/ /\ StepOf(c) = "trash"
             /\ IF disk[call.path].exists
                THEN /\ disk' = [disk EXCEPT ![call.path].exists = FALSE]
                     /\ calls' = [calls EXCEPT ![c] = Advanced(call, call)]
                ELSE /\ calls' = [calls EXCEPT ![c] = Returned(call)]
                     /\ UNCHANGED disk
             /\ UNCHANGED <<watched_folders, excluded_folders, db, db_conn>>
          \/ /\ StepOf(c) = "commit"
             /\ calls' = [calls EXCEPT ![c] = Advanced(call, call)]
             /\ UNCHANGED <<watched_folders, excluded_folders, db, db_conn, disk>>
          \/ /\ StepOf(c) = "unwatch"
             /\ watched_folders' = IF call.op = "clear_index" THEN {}
                                   ELSE watched_folders \ {call.path}
             /\ excluded_folders' = IF call.op = "clear_index" THEN {}
                                    ELSE excluded_folders \ {call.path}
             /\ calls' = [calls EXCEPT ![c] = Advanced(call, call)]
             /\ UNCHANGED <<db, db_conn, disk>>
          \/ /\ StepOf(c) = "query"
             /\ IF ~(data_dir /\ db.exists)
                THEN /\ calls' = [calls EXCEPT ![c] = Returned(call)]
                     /\ UNCHANGED db
                ELSE IF get_schema_version(db) < CURRENT_SCHEMA_VERSION
                THEN /\ db' = NoDb
                     /\ calls' = [calls EXCEPT ![c] = Returned(call)]
                ELSE IF db.folders = {}
                THEN /\ calls' = [calls EXCEPT ![c] = Returned(call)]
                     /\ UNCHANGED db
                ELSE /\ calls' = [calls EXCEPT ![c] = Advanced(call, [call EXCEPT
                            !.new_files =
                                [k \in 1..Len(valid_rows) |->
                                    [path |-> valid_rows[k].path,
                                     size |-> valid_rows[k].size,
                                     modified |-> ParseLastModified(
                                                      valid_rows[k].last_modified)]],
                            !.folders = db.folders,
                            !.excluded = db.exclusions])]
                     /\ UNCHANGED db
             /\ UNCHANGED <<watched_folders, excluded_folders, db_conn, disk>>
          \/ /\ StepOf(c) = "folders"
             /\ watched_folders' = call.folders
             /\ excluded_folders' = call.excluded
             /\ db_conn' = TRUE
             /\ calls' = [calls EXCEPT ![c] = Advanced(call, call)]
             /\ UNCHANGED <<db, disk>>
          \/ /\ StepOf(c) = "delete"
             /\ db' = IF db_conn
                      THEN [db EXCEPT !.files = <<>>, !.folders = {}, !.exclusions = {}]
                      ELSE db
             /\ calls' = [calls EXCEPT ![c] = Advanced(call, call)]
             /\ UNCHANGED <<watched_folders, excluded_folders, db_conn, disk>>
       /\ ret' = NoRet
       /\ UNCHANGED <<now, out, pdf_queue>>
       /\ UNCHANGED <<index, search_history, data_dir, scan, docscan, toggle>>

\* a reader of the DocumentTable (search.rs 97-118, folders.rs 13,
\* scanning.rs 298): what it sees under state.index.read()
ReadTable ==
    /\ CanRead(0)
    /\ out' = [op |-> "read", files |-> index]
    /\ ret' = NoRet
    /\ UNCHANGED <<index, watched_folders, excluded_folders, search_history, data_dir,
                   db_conn, db, disk, scan, docscan, toggle, calls, pdf_queue, now>>

NextLock ==
    \/ \E c \in Calls : CallStart(c, "scan_folder", {FolderP})
    \/ \E c \in Calls : CallStart(c, "delete_file", {File1})
    \/ \E c \in Calls : CallStart(c, "remove_folder", {FolderP})
    \/ \E c \in Calls : CallStart(c, "load_index", {None})
    \/ \E c \in Calls : CallStart(c, "clear_index", {None})
    \/ \E c \in Calls : Acquire(c)
    \/ \E c \in Calls : TableStep(c)
    \/ \E c \in Calls : CommandStep(c)
    \/ ReadTable
    \/ SetDataDir
    \/ ModifyFile({File1})

SpecLock == Init /\ [][NextLock]_vars

(***************************************************************************)
(* search/history.rs                                                       *)
(***************************************************************************)
MAX_HISTORY_ENTRIES == 50

\* a faulty add: the entries of the same query are kept
HistoryAdd_NoRetain(entries, query, result_count, timestamp) ==
    IF IsBlank(query) THEN entries
    ELSE Take(<<[query |-> query, timestamp |-> timestamp,
                 result_count |-> result_count]>> \o entries,
              MAX_HISTORY_ENTRIES)

\* a faulty add: the ledger is never trimmed
HistoryAdd_NoTrim(entries, query, result_count, timestamp) ==
    IF IsBlank(query) THEN entries
    ELSE <<[query |-> query, timestamp |-> timestamp,
            result_count |-> result_count]>>
         \o SelectSeq(entries, LAMBDA e : ToLower(e.query) # ToLower(query))

\* SearchHistory::add, with the value Utc::now() gives it
HistoryAdd(entries, query, result_count, timestamp) ==
    IF IsBlank(query) THEN entries
    ELSE Take(<<[query |-> query, timestamp |-> timestamp,
                 result_count |-> result_count]>>
              \o SelectSeq(entries, LAMBDA e : ToLower(e.query) # ToLower(query)),
              MAX_HISTORY_ENTRIES)

(***************************************************************************)
(* commands/search.rs: the command                                         *)
(***************************************************************************)
\* the Tantivy index: no command adds a document to it
tantivy_docs == <<>>

\* QueryParser::parse_query rejects a query that names an unknown field: none
\* of the words of the alphabet is a field of the Tantivy schema
TantivyRejects(query) == \E k \in 1..Len(query) : query[k] = ":"

\* FTS5 rejects a query that names an unknown column
FtsRejects(query) == \E k \in 1..Len(query) : query[k] = ":"

\* search_index, lines 56-65: the data directory is set and docufind.db is
\* there to open
FtsReady == data_dir /\ db.exists

\* search_fts5 fails: the file has no files_fts table, or the query is rejected
FtsFails(query) == ~db.tables \/ FtsRejects(query)

\* search_index
Search(inputs) ==
    \E input \in inputs :
        \E outcome \in search_index(input.query, input.filters, index, db.files,
                                    tantivy_docs, excluded_folders,
                                    FtsReady, FtsFails(input.query),
                                    TantivyRejects(input.query)) :
            /\ ret' = [called |-> TRUE, query |-> input.query,
                       filters |-> input.filters, ok |-> outcome.ok,
                       results |-> outcome.results, engines |-> outcome.engines,
                       logged |-> outcome.logged]
            /\ search_history' =
                   IF outcome.logged
                   THEN HistoryAdd(search_history, input.query, Len(outcome.results),
                                   now)
                   ELSE search_history
            /\ UNCHANGED <<index, watched_folders, excluded_folders, data_dir,
                           db_conn, db, disk, scan, docscan, toggle, calls, pdf_queue, now, out>>

(***************************************************************************)
(* The program                                                             *)
(***************************************************************************)
\* the folders the user scans and removes, and the folder the user excludes
ScanInputs == {FolderD, FolderP}
SearchScanInputs == {FolderD}
ExcludeInputs == {FolderP}
\* the file the user deletes, and the files other programs write
DeleteInputs == {File1}
ModifyInputs == Files

Query_r == <<"r">>
Query_beh == <<"beh">>
Query_field == <<"x", ":", "r">>
Query_blank == <<" ">>

\* the search_index calls the user makes
SearchInputs ==
    {[query |-> Query_r, filters |-> NoFilters],
     [query |-> Query_r, filters |-> [NoFilters EXCEPT !.file_path = File1]],
     [query |-> Query_r, filters |-> [NoFilters EXCEPT !.max_results = 1,
                                                       !.offset = 1]],
     [query |-> Query_r, filters |-> [NoFilters EXCEPT !.max_results = 1,
                                                       !.file_types = <<"text">>]],
     [query |-> Query_beh, filters |-> [NoFilters EXCEPT !.file_path = File3]],
     [query |-> Query_field, filters |-> NoFilters],
     [query |-> Query_blank, filters |-> NoFilters]}

(***************************************************************************)
(* folders/tree.rs                                                         *)
(***************************************************************************)
RECURSIVE AnyParentExcluded(_, _)
AnyParentExcluded(current, excluded) ==
    IF current = None THEN FALSE
    ELSE IF current \in excluded THEN TRUE
    ELSE AnyParentExcluded(PathParent(current), excluded)

\* a faulty is_excluded: only the folder itself and its direct parent
is_excluded_ParentOnly(path, excluded) ==
    \/ path \in excluded
    \/ PathParent(path) \in excluded

\* FolderTreeBuilder::is_excluded
is_excluded(path, excluded) ==
    \/ path \in excluded
    \/ AnyParentExcluded(PathParent(path), excluded)

(***************************************************************************)
(* commands/folders.rs                                                     *)
(***************************************************************************)
\* the folder_exclusions table after INSERT OR REPLACE / DELETE on state.db
DbExclusions(newset) ==
    IF db_conn THEN [db EXCEPT !.exclusions = newset] ELSE db

add_excluded_folder(path) ==
    /\ excluded_folders' = excluded_folders \cup {path}
    /\ db' = DbExclusions(db.exclusions \cup {path})
    /\ ret' = NoRet
    /\ UNCHANGED <<now, out, calls, pdf_queue>>
    /\ UNCHANGED <<index, watched_folders, search_history, data_dir, db_conn, disk, scan,
                   docscan>>

remove_excluded_folder(path) ==
    /\ excluded_folders' = excluded_folders \ {path}
    /\ db' = DbExclusions(db.exclusions \ {path})
    /\ ret' = NoRet
    /\ UNCHANGED <<now, out, calls, pdf_queue>>
    /\ UNCHANGED <<index, watched_folders, search_history, data_dir, db_conn, disk, scan,
                   docscan>>

AddExcludedFolder(inputs) ==
    \E path \in inputs :
        /\ add_excluded_folder(path)
        /\ UNCHANGED toggle

RemoveExcludedFolder(inputs) ==
    \E path \in inputs :
        /\ remove_excluded_folder(path)
        /\ UNCHANGED toggle

\* toggle_folder_exclusion, first half: read the set under its lock
ToggleRead ==
    \E t \in Togglers, path \in Folders :
        /\ toggle[t].pc \in {"idle", "done"}
        /\ toggle' = [toggle EXCEPT ![t] =
               [pc |-> "decided", path |-> path,
                is_currently_excluded |-> path \in excluded_folders,
                result |-> FALSE]]
        /\ ret' = NoRet
        /\ UNCHANGED <<now, out, calls, pdf_queue>>
        /\ UNCHANGED <<index, watched_folders, excluded_folders, search_history, data_dir,
                       db_conn, db, disk, scan, docscan>>

\* toggle_folder_exclusion, second half: remove or add, and the value returned
ToggleApply ==
    \E t \in Togglers :
        /\ toggle[t].pc = "decided"
        /\ IF toggle[t].is_currently_excluded
           THEN remove_excluded_folder(toggle[t].path)
           ELSE add_excluded_folder(toggle[t].path)
        /\ toggle' = [toggle EXCEPT ![t].pc = "done",
                                    ![t].result = ~toggle[t].is_currently_excluded]

NextFolders ==
    \/ AddExcludedFolder(Folders)
    \/ RemoveExcludedFolder(Folders)
    \/ ToggleRead
    \/ ToggleApply

SpecFolders == Init /\ [][NextFolders]_vars

\* the commands and the thread steps that write the DocumentTable
Next ==
    \/ SetDataDir
    \/ ScanStart(ScanInputs, {FALSE})
    \/ ScanWalk
    \/ ScanMerge
    \/ ScanSave
    \/ RemoveFolder(ScanInputs)
    \/ DeleteFile(DeleteInputs)
    \/ SaveIndex
    \/ LoadIndex
    \/ ClearIndex
    \/ DocScanStart
    \/ DocScanWalk
    \/ DocScanExtend
    \/ DocScanPersist

Spec == Init /\ [][Next]_vars

\* scans of a disk that other programs write
NextScan ==
    \/ SetDataDir
    \/ ScanStart(ScanInputs, BOOLEAN)
    \/ ScanWalk
    \/ ScanMerge
    \/ ScanSave
    \/ ModifyFile(ModifyInputs)

SpecScan == Init /\ [][NextScan]_vars

\* searches while a folder is scanned and folders are excluded
NextSearch ==
    \/ SetDataDir
    \/ ScanStart(SearchScanInputs, {FALSE})
    \/ ScanWalk
    \/ ScanMerge
    \/ ScanSave
    \/ DocScanStart
    \/ DocScanWalk
    \/ DocScanExtend
    \/ DocScanPersist
    \/ AddExcludedFolder(ExcludeInputs)
    \/ RemoveExcludedFolder(ExcludeInputs)
    \/ Search(SearchInputs)

SpecSearch == Init /\ [][NextSearch]_vars

(***************************************************************************)
(* search/query_parser.rs: the calls                                       *)
(***************************************************************************)
\* the longest text, and the most tokens of a query
MaxTextLen == 3
MaxQueryTokens == 3

\* the sequences over S of length at most n
RECURSIVE SeqsUpTo(_, _)
SeqsUpTo(S, n) ==
    IF n = 0 THEN {<<>>}
    ELSE LET shorter == SeqsUpTo(S, n - 1)
         IN shorter \cup {Append(q, c) : q \in shorter, c \in S}

\* the lower-cased texts a query is matched against
Texts == SeqsUpTo({"x", "r"}, MaxTextLen) \cup {<<"x", " ", "r">>, <<"r", " ", "x">>}

\* the tokens a query is made of: terms, operators in both cases, prefixed
\* terms, a quoted phrase
Phrase_x_r == <<Quote, "x", " ", "r", Quote>>
BareTerms == {<<"x">>, <<"r">>, <<"x", "r">>}
QueryTokens ==
    BareTerms \cup
    {KwAnd, <<"a", "n", "d">>, KwOr, KwNot,
     <<"+", "x">>, <<"-", "r">>, Phrase_x_r}

\* the tokens of a query written one after the other, a space between them
RECURSIVE Join(_)
Join(tokens) ==
    IF tokens = <<>> THEN <<>>
    ELSE IF Len(tokens) = 1 THEN tokens[1]
    ELSE tokens[1] \o <<" ">> \o Join(Tail(tokens))

\* the calls to make: a text and a query, or a text and a ParsedQuery built
\* by hand
ParserInputs ==
    LET TermLists == {<<>>, <<(<<"x">>)>>, <<(<<"r">>)>>, <<(<<"x">>), (<<"r">>)>>,
                      <<(<<"x", " ", "r">>)>>}
    IN [op : {"parse_input"}, text : Texts,
        tokens : SeqsUpTo(QueryTokens, MaxQueryTokens)]
       \cup [op : {"matches_input"}, text : Texts,
             parsed : [required_terms : TermLists, optional_terms : TermLists,
                       excluded_terms : TermLists, exact_phrases : TermLists]]

InitParser == AppInit /\ search_history = <<>> /\ now = 0 /\ out \in ParserInputs

\* parse_simple_query(query), then matches_parsed_query(text, &parsed)
ParseAndMatch ==
        LET query == Join(out.tokens)
            parsed == parse_simple_query(query)
        IN /\ out.op = "parse_input"
           /\ out' = [op |-> "parse", text |-> out.text, tokens |-> out.tokens,
                      query |-> query, parsed |-> parsed,
                      matched |-> matches_parsed_query(out.text, parsed)]
           /\ UNCHANGED <<index, watched_folders, excluded_folders, search_history,
                          data_dir, db_conn, db, disk, scan, docscan, toggle, calls, pdf_queue, ret,
                          now>>

\* matches_parsed_query(text, &query) on any ParsedQuery
MatchParsed ==
        /\ out.op = "matches_input"
        /\ out' = [op |-> "matches", text |-> out.text, parsed |-> out.parsed,
                   matched |-> matches_parsed_query(out.text, out.parsed)]
        /\ UNCHANGED <<index, watched_folders, excluded_folders, search_history,
                          data_dir, db_conn, db, disk, scan, docscan, toggle, calls, pdf_queue, ret,
                          now>>

NextParser ==
    \/ ParseAndMatch
    \/ MatchParsed

SpecParser == InitParser /\ [][NextParser]_vars

(***************************************************************************)
(* The direct scan applied to any DocumentTable and query                  *)
(***************************************************************************)
\* the DocumentTables: the files of the disk, each at most once, in any order
Tables ==
    {t \in SeqsUpTo({[path |-> p, size |-> 1, modified |-> 1] : p \in Files}, Cardinality(Files)) :
        \A i, j \in 1..Len(t) : i # j => t[i].path # t[j].path}

\* the arguments of a call of search_direct_content
DirectInputs ==
    [op : {"direct_input"}, files : Tables,
     query : {Join(t) : t \in SeqsUpTo(QueryTokens, MaxQueryTokens)} \cup {Query_beh, <<"-", "x">>}]

InitDirect == AppInit /\ search_history = <<>> /\ now = 0 /\ out \in DirectInputs

\* search_direct_content(query, files, None, None)
DirectScan ==
        /\ out.op = "direct_input"
        /\ \E results \in search_direct_content(out.query, out.files, DEFAULT_MAX_RESULTS, None) :
              out' = [op |-> "direct", query |-> out.query, files |-> out.files,
                      results |-> results]
        /\ UNCHANGED <<index, watched_folders, excluded_folders, search_history,
                       data_dir, db_conn, db, disk, scan, docscan, toggle, calls, pdf_queue, ret,
                       now>>

NextDirect == DirectScan

SpecDirect == InitDirect /\ [][NextDirect]_vars

(***************************************************************************)
(* Scans of a disk whose files come, go and are emptied                    *)
(***************************************************************************)
\* what other programs do to the files a scan reads through WalkDir and
\* entry.metadata(): a file is created, emptied, or removed
DiskChange(created, emptied, removed) ==
    /\ \/ \E p \in created :
              /\ ~disk[p].exists
              /\ disk' = [disk EXCEPT ![p].exists = TRUE]
       \/ \E p \in emptied :
              /\ disk[p].exists /\ disk[p].size # 0
              /\ disk[p].modified < MaxMtime
              /\ disk' = [disk EXCEPT ![p].size = 0, ![p].modified = @ + 1]
       \/ \E p \in removed :
              /\ disk[p].exists
              /\ disk' = [disk EXCEPT ![p].exists = FALSE]
    /\ ret' = NoRet
    /\ UNCHANGED <<now, out, calls, pdf_queue>>
    /\ UNCHANGED <<index, watched_folders, excluded_folders, search_history, data_dir,
                   db_conn, db, scan, docscan, toggle>>

NextDisk ==
    \/ ScanStart(ScanInputs, BOOLEAN)
    \/ ScanWalk
    \/ ScanMerge
    \/ ScanSave
    \/ DiskChange({File4, File5}, {File3}, {File1})

SpecDisk == Init /\ [][NextDisk]_vars

(***************************************************************************)
(* The search history ledger: search/history.rs and its commands           *)
(***************************************************************************)
MaxTicks == 1

\* a faulty get_recent: get_all
get_recent_All(entries, count) == entries

\* SearchHistory::get_recent
get_recent(entries, count) == Take(entries, count)

\* SearchHistory::remove
HistoryRemove(entries, query) ==
    SelectSeq(entries, LAMBDA e : ToLower(e.query) # ToLower(query))

\* the i-th of the queries that fill a ledger, as format!("query{}", i) of
\* test_max_entries
NumberedQuery(i) ==
    LET digit == <<"0", "1", "2", "3", "4", "5", "6", "7", "8", "9">>
    IN <<"x", digit[(i \div 10) + 1], digit[(i % 10) + 1]>>

\* the ledger after the searches for NumberedQuery(i) .. NumberedQuery(n),
\* one per clock tick
RECURSIVE AddNumbered(_, _, _)
AddNumbered(entries, i, n) ==
    IF Len(entries) >= 0 /\ i > n THEN entries
    ELSE AddNumbered(HistoryAdd(entries, NumberedQuery(i), i % 3, i), i + 1, n)

Prefilled(n) == AddNumbered(<<>>, 1, n)

\* the numbers of searches made before the ledger is observed: none, a
\* few, up to the capacity and beyond it
PrefillCounts ==
    {0, 2, MAX_HISTORY_ENTRIES, MAX_HISTORY_ENTRIES + 2}

\* the queries of the calls: the oldest of a full ledger, its newest in
\* another letter case, a new query and a blank one
HistoryQueries ==
    {NumberedQuery(1), <<"X">> \o Tail(NumberedQuery(MAX_HISTORY_ENTRIES)),
     <<"r">>, <<" ">>}

\* the ledger some searches have filled; the clock has passed them all
InitHistory ==
    /\ AppInit
    /\ \E n \in PrefillCounts : search_history = Prefilled(n)
    /\ now = MAX_HISTORY_ENTRIES + 2
    /\ out = NoOut

\* the clock of Utc::now() advances; it is taken never to step back
Tick ==
    /\ now < MAX_HISTORY_ENTRIES + 2 + MaxTicks
    /\ now' = now + 1
    /\ UNCHANGED <<index, watched_folders, excluded_folders, search_history,
                   data_dir, db_conn, db, disk, scan, docscan, toggle, calls, pdf_queue, ret, out>>

\* history.add(query, results.len()) of a search_index call, under the lock
\* of the ledger
HistAdd ==
    \E query \in HistoryQueries, result_count \in {1, 2} :
        /\ search_history' = HistoryAdd(search_history, query, result_count, now)
        /\ out' = [op |-> "add", query |-> query, result_count |-> result_count,
                   before |-> search_history]
        /\ UNCHANGED <<index, watched_folders, excluded_folders, data_dir, db_conn,
                       db, disk, scan, docscan, toggle, calls, pdf_queue, ret, now>>

\* remove_from_search_history(query)
HistRemove ==
    \E query \in HistoryQueries :
        /\ search_history' = HistoryRemove(search_history, query)
        /\ out' = [op |-> "remove", query |-> query, before |-> search_history]
        /\ UNCHANGED <<index, watched_folders, excluded_folders, data_dir, db_conn,
                       db, disk, scan, docscan, toggle, calls, pdf_queue, ret, now>>

\* clear_search_history()
HistClear ==
    /\ search_history' = <<>>
    /\ out' = [op |-> "clear", before |-> search_history]
    /\ UNCHANGED <<index, watched_folders, excluded_folders, data_dir, db_conn,
                   db, disk, scan, docscan, toggle, calls, pdf_queue, ret, now>>

\* get_search_history(count): count.unwrap_or(10)
HistGet ==
    \E count \in {NoNum, 0, MAX_HISTORY_ENTRIES + 1} :
        /\ out' = [op |-> "get", count |-> IF count = NoNum THEN 10 ELSE count,
                   entries |-> get_recent(search_history, IF count = NoNum THEN 10 ELSE count),
                   before |-> search_history]
        /\ UNCHANGED <<index, watched_folders, excluded_folders, search_history,
                       data_dir, db_conn, db, disk, scan, docscan, toggle, calls, pdf_queue, ret, now>>

NextHistory ==
    \/ Tick
    \/ HistAdd
    \/ HistRemove
    \/ HistClear
    \/ HistGet

SpecHistory == InitHistory /\ [][NextHistory]_vars

(***************************************************************************)
(* search/filters.rs: the calls                                            *)
(***************************************************************************)
\* the results of one list handed to apply_filters
MaxResultsLen == 2

\* the results to filter: three types, sizes and dates below, at and above
\* the limits of the filters
FilterResults ==
    {[path |-> File1, size |-> 1, modified |-> 3],
     [path |-> File2, size |-> 2, modified |-> 2],
     [path |-> File3, size |-> 2, modified |-> 1],
     [path |-> File5, size |-> 3, modified |-> 1]}

\* the filters of a call: each one absent or present, the type list also empty
FilterInputs ==
    [op : {"filters_input"},
     results : SeqsUpTo(FilterResults, MaxResultsLen),
     filters : [file_types : {None, <<>>, <<"word">>, <<"text", "excel">>},
                date_from : {NoNum, 2}, date_to : {NoNum, 2},
                min_size : {NoNum, 2}, max_size : {NoNum, 2},
                folder_path : {None, FolderP},
                file_path : {None}, max_results : {NoNum}, offset : {NoNum}]]

InitFilters == AppInit /\ search_history = <<>> /\ now = 0 /\ out \in FilterInputs

\* apply_filters(results, &filters)
ApplyFilters ==
    /\ out.op = "filters_input"
    /\ out' = [op |-> "filters", results |-> out.results, filters |-> out.filters,
               filtered |-> apply_filters(out.results, out.filters)]
    /\ UNCHANGED <<index, watched_folders, excluded_folders, search_history,
                   data_dir, db_conn, db, disk, scan, docscan, toggle, calls, pdf_queue,
                   ret, now>>

NextFilters == ApplyFilters

SpecFilters == InitFilters /\ [][NextFilters]_vars

(***************************************************************************)
(* folders/tree.rs: build_folder_tree                                      *)
(***************************************************************************)
\* add_path: the directories the walk up from a file visits
RECURSIVE Ancestors(_)
Ancestors(p) ==
    IF PathParent(p) = None THEN {}
    ELSE {PathParent(p)} \cup Ancestors(PathParent(p))

\* folder_file_counts after add_path of every file: the entry of the key dir,
\* 0 when the map has no such key
folder_file_counts(files, dir) ==
    Cardinality({k \in 1..Len(files) : dir \in Ancestors(files[k].path)})

\* folder_children after add_path of every file: the entry of the key dir
folder_children(files, dir) ==
    {child \in UNION {Ancestors(files[k].path) : k \in 1..Len(files)} :
        PathParent(child) = dir}

\* the bytes of the characters of the modelled paths
ByteOf(c) ==
    CASE c = "2" -> 50 [] c = "R" -> 82 [] c = Sep -> 92 [] c = "d" -> 100
      [] c = "m" -> 109 [] c = "n" -> 110 [] c = "p" -> 112 [] c = "s" -> 115

\* the order of String: byte after byte, a prefix first
RECURSIVE StrLess(_, _)
StrLess(a, b) ==
    IF b = <<>> THEN FALSE
    ELSE IF a = <<>> THEN TRUE
    ELSE IF Head(a) = Head(b) THEN StrLess(Tail(a), Tail(b))
    ELSE ByteOf(Head(a)) < ByteOf(Head(b))

\* build_node: the node of a folder, its children sorted
RECURSIVE build_node(_, _, _)
build_node(path, files, excluded) ==
    LET child_paths == folder_children(files, path)
        sorted_children ==
            CHOOSE seq \in [1..Cardinality(child_paths) -> child_paths] :
                \A i, j \in 1..Cardinality(child_paths) :
                    i < j => StrLess(seq[i], seq[j])
    IN [path |-> path,
        name |-> IF PathFileName(path) = None THEN path ELSE PathFileName(path),
        is_excluded |-> is_excluded(path, excluded),
        file_count |-> folder_file_counts(files, path),
        children |-> [k \in 1..Cardinality(child_paths) |->
                         build_node(sorted_children[k], files, excluded)]]

\* build_folder_tree: the trees of the root folders (every folder of the
\* modelled disk exists), in the order the HashSet yields them
build_folder_tree(files, root_folders, excluded) ==
    {build_node(root, files, excluded) : root \in root_folders}

\* the calls: a DocumentTable, watched folders as scan_folder and load_index
\* store them (the string of the caller, with or without a last separator),
\* excluded folders
TreeInputs ==
    [op : {"tree_input"}, files : Tables,
     root_folders : SUBSET {FolderD, FolderP, FolderP \o <<Sep>>},
     excluded_folders : SUBSET {FolderP}]

InitTree == AppInit /\ search_history = <<>> /\ now = 0 /\ out \in TreeInputs

\* get_folder_tree
BuildTree ==
    /\ out.op = "tree_input"
    /\ out' = [op |-> "tree", files |-> out.files, root_folders |-> out.root_folders,
               trees |-> build_folder_tree(out.files, out.root_folders,
                                           out.excluded_folders)]
    /\ UNCHANGED <<index, watched_folders, excluded_folders, search_history,
                   data_dir, db_conn, db, disk, scan, docscan, toggle, calls, pdf_queue,
                   ret, now>>

SpecTree == InitTree /\ [][BuildTree]_vars

(***************************************************************************)
(* folders/mod.rs: normalize_path, is_under_folder                         *)
(***************************************************************************)
\* the characters of one path handed to the path utilities
MaxPathLen == 4

\* a faulty normalization: no separator is appended
normalize_path_NoPush(path) ==
    [i \in 1..Len(path) |-> IF path[i] = "/" THEN Sep ELSE path[i]]

\* normalize_path: every '/' replaced by '\', a '\' appended unless the path
\* ends with one
normalize_path(path) ==
    LET normalized == [i \in 1..Len(path) |-> IF path[i] = "/" THEN Sep ELSE path[i]]
    IN IF normalized # <<>> /\ normalized[Len(normalized)] = Sep
       THEN normalized
       ELSE Append(normalized, Sep)

\* is_under_folder
is_under_folder(path, folder) ==
    StartsWith(normalize_path(path), normalize_path(folder))

\* the paths of the calls: names separated by single separators of either
\* kind, rooted or not, with or without a last separator
PathStrings ==
    {q \in SeqsUpTo({Sep, "/", "d"}, MaxPathLen) :
        /\ q # <<>>
        /\ \A i \in 1..(Len(q) - 1) : ~(q[i] \in {Sep, "/"} /\ q[i + 1] \in {Sep, "/"})}

InitPaths ==
    /\ AppInit /\ search_history = <<>> /\ now = 0
    /\ out \in [op : {"under_input"}, path : PathStrings, folder : PathStrings]

\* is_under_folder(path, folder), and normalize_path applied once and twice
UnderFolder ==
    /\ out.op = "under_input"
    /\ out' = [op |-> "under", path |-> out.path, folder |-> out.folder,
               under |-> is_under_folder(out.path, out.folder),
               once |-> normalize_path(out.path),
               twice |-> normalize_path(normalize_path(out.path))]
    /\ UNCHANGED <<index, watched_folders, excluded_folders, search_history,
                   data_dir, db_conn, db, disk, scan, docscan, toggle, calls, pdf_queue,
                   ret, now>>

SpecPaths == InitPaths /\ [][UnderFolder]_vars

(***************************************************************************)
(* commands/search.rs: the fallback with a committed Tantivy index         *)
(***************************************************************************)
\* the calls: an ASCII query, a DocumentTable, the documents of the Tantivy
\* index, the excluded folders; FTS5 is not available
MergeInputs ==
    [op : {"search_input"}, query : {Query_r, <<"x">>}, files : Tables, docs : Tables,
     excluded : {{}, {FolderS}}]

InitMerge == AppInit /\ search_history = <<>> /\ now = 0 /\ out \in MergeInputs

\* search_index(query, None, None), lines 91-153
SearchFallback ==
    /\ out.op = "search_input"
    /\ \E outcome \in search_index(out.query, NoFilters, out.files, <<>>, out.docs,
                                   out.excluded, FALSE, FALSE, FALSE) :
           out' = [op |-> "search", query |-> out.query, files |-> out.files,
                   docs |-> out.docs, excluded |-> out.excluded,
                   engines |-> outcome.engines, results |-> outcome.results]
    /\ UNCHANGED <<index, watched_folders, excluded_folders, search_history,
                   data_dir, db_conn, db, disk, scan, docscan, toggle, calls, pdf_queue,
                   ret, now>>

SpecMerge == InitMerge /\ [][SearchFallback]_vars

(***************************************************************************)
(* search/direct_search.rs: the calls with a result cap                    *)
(***************************************************************************)
\* the calls: a query, a DocumentTable snapshot, a cap below, at and above
\* the number of documents
CapInputs ==
    [op : {"capped_input"}, query : {Query_r, Query_beh, <<"x">>}, files : Tables,
     max_results : {1, 2, DEFAULT_MAX_RESULTS}]

InitCap == AppInit /\ search_history = <<>> /\ now = 0 /\ out \in CapInputs

\* search_direct_content(query, files, Some(max_results), None): one
\* execution, the workers interleaved with found_count in some way
DirectScanCapped ==
    /\ out.op = "capped_input"
    /\ \E results \in search_direct_content(out.query, out.files, out.max_results,
                                            None) :
           out' = [op |-> "capped", query |-> out.query, files |-> out.files,
                   max_results |-> out.max_results, results |-> results]
    /\ UNCHANGED <<index, watched_folders, excluded_folders, search_history,
                   data_dir, db_conn, db, disk, scan, docscan, toggle, calls, pdf_queue,
                   ret, now>>

SpecCap == InitCap /\ [][DirectScanCapped]_vars

(***************************************************************************)
(* background/pdf_queue.rs                                                 *)
(***************************************************************************)
\* the width of the usize counters, and the PDFs queued between two resets
UsizeBits == 4
MaxPdfs == 2

\* AtomicUsize::fetch_add and fetch_sub wrap around on overflow
wrapping_add(x, n) == (x + n) % (2 ^ UsizeBits)
wrapping_sub(x, n) == (x - n) % (2 ^ UsizeBits)

\* a worker's loop over the queue: the methods it calls for one PDF, the
\* extraction of the text coming between the second and the third
WorkerProgram == <<"dequeue", "mark_processing", "mark_completed">>

\* the worker c has taken a PDF off the queue and has made `at` calls for it
WorkerAt(c, at) == calls[c].op = "pdf_worker" /\ calls[c].at = at

\* the parts of the state the queue's methods leave alone
PdfFrame ==
    UNCHANGED <<index, watched_folders, excluded_folders, search_history,
                data_dir, db_conn, db, disk, scan, docscan, toggle, ret, now>>

\* no observer is between two of its reads
NotReading == out.op \notin {"queue_empty", "status_read"}

\* what is_idle() or status() returned is observed in the state of the
\* return: it is dropped when the queue moves on
Observed == out' = IF NotReading THEN NoOut ELSE out

\* PdfQueue::enqueue(path)
Enqueue(path) ==
    /\ pdf_queue.total_queued < MaxPdfs
    /\ pdf_queue' = [pdf_queue EXCEPT
                        !.queue = Append(@, path),
                        !.total_queued = wrapping_add(@, 1)]
    /\ PdfFrame
    /\ UNCHANGED calls
    /\ Observed

\* PdfQueue::enqueue_batch(paths)
EnqueueBatch(paths) ==
    /\ pdf_queue.total_queued + Len(paths) <= MaxPdfs
    /\ pdf_queue' = [pdf_queue EXCEPT
                        !.queue = @ \o paths,
                        !.total_queued = wrapping_add(@, Len(paths))]
    /\ PdfFrame
    /\ UNCHANGED calls
    /\ Observed

\* PdfQueue::dequeue() returning Some(path) to the worker c
Dequeue(c) ==
    /\ calls[c].op = "none"
    /\ pdf_queue.queue # <<>>
    /\ WorkerProgram[1] = "dequeue"
    /\ pdf_queue' = [pdf_queue EXCEPT !.queue = Tail(@)]
    /\ calls' = [calls EXCEPT ![c] = [CallIdle EXCEPT !.op = "pdf_worker", !.at = 1,
                                                      !.path = Head(pdf_queue.queue)]]
    /\ PdfFrame
    /\ Observed

\* PdfQueue::mark_processing(), called by the worker c
MarkProcessing(c) ==
    /\ WorkerAt(c, 1)
    /\ WorkerProgram[2] = "mark_processing"
    /\ pdf_queue' = [pdf_queue EXCEPT !.processing_count = wrapping_add(@, 1)]
    /\ calls' = [calls EXCEPT ![c].at = 2]
    /\ PdfFrame
    /\ Observed

\* PdfQueue::mark_completed(), called by the worker c: the fetch_sub
MarkCompletedSub(c) ==
    /\ WorkerAt(c, 2)
    /\ WorkerProgram[3] = "mark_completed"
    /\ pdf_queue' = [pdf_queue EXCEPT !.processing_count = wrapping_sub(@, 1)]
    /\ calls' = [calls EXCEPT ![c].at = 3]
    /\ PdfFrame
    /\ Observed

\* PdfQueue::mark_completed(), called by the worker c: the fetch_add
MarkCompletedAdd(c) ==
    /\ WorkerAt(c, 3)
    /\ pdf_queue' = [pdf_queue EXCEPT !.completed_count = wrapping_add(@, 1)]
    /\ calls' = [calls EXCEPT ![c] = CallIdle]
    /\ PdfFrame
    /\ Observed

\* PdfQueue::set_running(running)
SetRunning(running) ==
    /\ pdf_queue.is_running # running
    /\ pdf_queue' = [pdf_queue EXCEPT !.is_running = running]
    /\ PdfFrame
    /\ UNCHANGED calls
    /\ Observed

\* PdfQueue::reset(), called by c: the queue cleared under its lock, then
\* the four stores one after the other
ResetStep(c) ==
    /\ \/ /\ calls[c].op = "none"
          /\ pdf_queue' = [pdf_queue EXCEPT !.queue = <<>>]
          /\ calls' = [calls EXCEPT ![c] = [CallIdle EXCEPT !.op = "reset", !.at = 1]]
       \/ /\ calls[c].op = "reset"
          /\ pdf_queue' =
                 CASE calls[c].at = 1 -> [pdf_queue EXCEPT !.processing_count = 0]
                   [] calls[c].at = 2 -> [pdf_queue EXCEPT !.completed_count = 0]
                   [] calls[c].at = 3 -> [pdf_queue EXCEPT !.total_queued = 0]
                   [] OTHER -> [pdf_queue EXCEPT !.is_running = FALSE]
          /\ calls' = [calls EXCEPT ![c] = IF calls[c].at = 4 THEN CallIdle
                                          ELSE [@ EXCEPT !.at = @ + 1]]
    /\ PdfFrame
    /\ Observed

\* PdfQueue::is_idle(): queue_empty under the lock, then the load of
\* processing_count
IsIdle ==
    /\ \/ /\ NotReading
          /\ out' = [op |-> "queue_empty", queue_empty |-> pdf_queue.queue = <<>>]
       \/ /\ out.op = "queue_empty"
          /\ out' = [op |-> "is_idle",
                     idle |-> out.queue_empty /\ pdf_queue.processing_count = 0]
    /\ PdfFrame
    /\ UNCHANGED <<calls, pdf_queue>>

\* QueueStatus::is_complete
is_complete(status) == status.pending = 0 /\ status.processing = 0

\* PdfQueue::status(): the five fields read one after the other
Status ==
    /\ \/ /\ NotReading
          /\ out' = [op |-> "status_read", read |-> 1,
                     pending |-> Len(pdf_queue.queue), processing |-> 0,
                     completed |-> 0, total |-> 0, is_running |-> FALSE]
       \/ /\ out.op = "status_read"
          /\ out' =
                 CASE out.read = 1 ->
                          [out EXCEPT !.read = 2,
                                      !.processing = pdf_queue.processing_count]
                   [] out.read = 2 ->
                          [out EXCEPT !.read = 3,
                                      !.completed = pdf_queue.completed_count]
                   [] out.read = 3 ->
                          [out EXCEPT !.read = 4, !.total = pdf_queue.total_queued]
                   [] OTHER ->
                          [out EXCEPT !.op = "status", !.read = 5,
                                      !.is_running = pdf_queue.is_running]
    /\ PdfFrame
    /\ UNCHANGED <<calls, pdf_queue>>

\* producers, workers and a caller of reset
NextPdf ==
    \/ Enqueue(File4)
    \/ EnqueueBatch(<<File4, File4>>)
    \/ \E c \in Calls : Dequeue(c)
    \/ \E c \in Calls : MarkProcessing(c)
    \/ \E c \in Calls : MarkCompletedSub(c)
    \/ \E c \in Calls : MarkCompletedAdd(c)
    \/ \E running \in BOOLEAN : SetRunning(running)
    \/ \E c \in Calls : ResetStep(c)
    \/ IsIdle

SpecPdf == Init /\ [][NextPdf]_vars

\* producers, workers and the observers of the queue, between two resets
NextPdfStatus ==
    \/ Enqueue(File4)
    \/ EnqueueBatch(<<File4, File4>>)
    \/ \E c \in Calls : Dequeue(c)
    \/ \E c \in Calls : MarkProcessing(c)
    \/ \E c \in Calls : MarkCompletedSub(c)
    \/ \E c \in Calls : MarkCompletedAdd(c)
    \/ \E running \in BOOLEAN : SetRunning(running)
    \/ IsIdle
    \/ Status

SpecPdfStatus == Init /\ [][NextPdfStatus]_vars

(***************************************************************************)
(* commands/persistence.rs: save_index, a new process, load_index          *)
(***************************************************************************)
\* the states save_index is called in: the watched folders, their
\* documents in the order the scans left them (or one path scanned twice),
\* and folders excluded with add_excluded_folder
PersistInputs ==
    {s \in [files : Tables \cup {<<[path |-> File1, size |-> 1, modified |-> MaxMtime], [path |-> File1, size |-> 1, modified |-> 1]>>},
            folders : SUBSET {FolderP, FolderP2}, excluded : SUBSET {FolderS}] :
        \A k \in 1..Len(s.files) :
            \E folder \in s.folders : StartsWith(s.files[k].path, folder \o <<Sep>>)}

InitPersist ==
    /\ \E s \in PersistInputs :
           /\ index = s.files
           /\ watched_folders = s.folders
           /\ excluded_folders = s.excluded
    /\ data_dir = TRUE
    /\ db_conn = FALSE
    /\ db = NoDb
    /\ disk = [p \in Files \cup {File4, File5} |->
                  [exists |-> p \in Files, size |-> InitialSize(p), modified |-> 1]]
    /\ scan = ScanIdle
    /\ docscan = DocScanIdle
    /\ toggle = [t \in Togglers |-> ToggleIdle]
    /\ calls = [c \in Calls |-> CallIdle]
    /\ pdf_queue = PdfQueueNew
    /\ ret = NoRet
    /\ search_history = <<>>
    /\ now = 0
    /\ out = NoOut

\* save_index returns: Ok with the state it has written, or the error of the
\* INSERT of a second row for a path
SaveIndexReturn ==
    /\ out.op = "none"
    /\ db' = SavedDb(index, watched_folders, excluded_folders)
    /\ db_conn' = SavedConn(index)
    /\ out' = [op |-> "save_index", ok |-> ~HasDuplicatePaths(index),
               files |-> index, folders |-> watched_folders,
               excluded |-> excluded_folders]
    /\ UNCHANGED <<index, watched_folders, excluded_folders, search_history, data_dir,
                   disk, scan, docscan, toggle, calls, pdf_queue, ret, now>>

\* the application is closed and started again: AppState::default(), and
\* the setup hook's set_data_dir; the database file stays
Restart ==
    /\ out.op = "save_index"
    /\ index' = <<>>
    /\ watched_folders' = {}
    /\ excluded_folders' = {}
    /\ db_conn' = FALSE
    /\ out' = [out EXCEPT !.op = "restarted"]
    /\ UNCHANGED <<search_history, data_dir, db, disk, scan, docscan, toggle, calls,
                   pdf_queue, ret, now>>

\* what load_index reads from the database d: the folders that exist, the
\* exclusions, the rows under a folder whose file exists
Loaded(d) ==
    LET valid_folders == d.folders
        valid_rows == SelectSeq(d.files, LAMBDA row :
                          /\ \E folder \in valid_folders : StartsWith(row.path, folder)
                          /\ disk[row.path].exists)
    IN [folders |-> valid_folders,
        excluded |-> d.exclusions,
        files |-> [k \in 1..Len(valid_rows) |->
                      [path |-> valid_rows[k].path, size |-> valid_rows[k].size,
                       modified |-> ParseLastModified(valid_rows[k].last_modified)]]]

\* load_index returns: "upgraded" when it deleted the database as an old
\* version, "loaded" when it replaced the state
LoadIndexReturn ==
    /\ out.op = "restarted"
    /\ data_dir
    /\ db.exists
    /\ IF get_schema_version(db) < CURRENT_SCHEMA_VERSION
       THEN /\ db' = NoDb
            /\ out' = [out EXCEPT !.op = "load_index"] @@
                          [loaded |-> FALSE, upgraded |-> TRUE]
            /\ UNCHANGED <<index, watched_folders, excluded_folders, db_conn>>
       ELSE IF Loaded(db).folders = {}
       THEN /\ out' = [out EXCEPT !.op = "load_index"] @@
                          [loaded |-> FALSE, upgraded |-> FALSE]
            /\ UNCHANGED <<index, watched_folders, excluded_folders, db_conn, db>>
       ELSE /\ index' = Loaded(db).files
            /\ watched_folders' = Loaded(db).folders
            /\ excluded_folders' = Loaded(db).excluded
            /\ db_conn' = TRUE
            /\ out' = [out EXCEPT !.op = "load_index"] @@
                          [loaded |-> TRUE, upgraded |-> FALSE]
            /\ UNCHANGED db
    /\ UNCHANGED <<search_history, data_dir, disk, scan, docscan, toggle, calls,
                   pdf_queue, ret, now>>

NextPersist ==
    \/ SaveIndexReturn
    \/ Restart
    \/ LoadIndexReturn

SpecPersist == InitPersist /\ [][NextPersist]_vars

(***************************************************************************)
(* state.rs: the locks of AppState, in the order the commands take them    *)
(***************************************************************************)
\* the commands that run at the same time
MaxThreads == 3
Threads == 1..MaxThreads

\* a thread that runs no command
ThreadIdle == [op |-> "none", at |-> 0, holds |-> "none", mutexes |-> {}]

\* save_index_internal: the three guards live until it returns
SaveLocks ==
    <<<<"read", "index">>, <<"lock", "watched_folders">>, <<"lock", "excluded_folders">>,
      <<"drop", "excluded_folders">>, <<"drop", "watched_folders">>, <<"drop", "index">>>>

\* the locks a command takes and drops, in the order of its statements
Locks(op) ==
    CASE op = "search_index" -> <<<<"read", "index">>, <<"drop", "index">>>>
      [] op = "get_folder_tree" -> SaveLocks
      [] op = "get_index_stats" ->
             <<<<"read", "index">>, <<"lock", "watched_folders">>,
               <<"drop", "watched_folders">>, <<"drop", "index">>>>
      [] op = "get_indexed_folders" ->
             <<<<"lock", "watched_folders">>, <<"read", "index">>,
               <<"drop", "index">>, <<"drop", "watched_folders">>>>
      [] op = "save_index" -> SaveLocks
      [] op = "scan_folder" ->
             <<<<"lock", "watched_folders">>, <<"drop", "watched_folders">>,
               <<"write", "index">>, <<"drop", "index">>>> \o SaveLocks
      [] op = "delete_file" -> <<<<"write", "index">>, <<"drop", "index">>>>
      [] op = "remove_folder" ->
             <<<<"lock", "watched_folders">>, <<"drop", "watched_folders">>,
               <<"lock", "excluded_folders">>, <<"drop", "excluded_folders">>,
               <<"write", "index">>, <<"drop", "index">>>> \o SaveLocks
      [] OTHER ->
             <<<<"write", "index">>, <<"drop", "index">>,
               <<"lock", "watched_folders">>, <<"drop", "watched_folders">>,
               <<"lock", "excluded_folders">>, <<"drop", "excluded_folders">>>>

Commands ==
    {"search_index", "get_folder_tree", "get_index_stats", "get_indexed_folders",
     "save_index", "scan_folder", "delete_file", "remove_folder", "clear_index"}

\* the thread t is inside a command, before the statement it runs next
Running(t) == calls[t].op # "none" /\ calls[t].at <= Len(Locks(calls[t].op))
Statement(t) == Locks(calls[t].op)[calls[t].at]

\* RwLock<Vec<FileData>>: who holds it, and the writers waiting for it
WriterHolds == \E u \in Threads : calls[u].holds = "write"
ReaderHolds == \E u \in Threads : calls[u].holds = "read"
WriterWaits == \E u \in Threads : calls[u].holds = "pending"

\* Mutex<HashSet<String>>: free when no thread holds it
MutexFree(mutex) == \A u \in Threads : mutex \notin calls[u].mutexes

\* whether the next statement of t returns: RwLock::read() returns when no
\* writer holds the lock and, for a reader queued behind a waiting writer,
\* when no writer waits; write() when nobody holds it; Mutex::lock() when
\* the mutex is free
CanStep(t) ==
    /\ Running(t)
    /\ CASE Statement(t)[1] = "read" ->
                ~WriterHolds /\ (calls[t].holds = "queued" => ~WriterWaits)
         [] Statement(t)[1] = "write" ->
                calls[t].holds = "pending" => ~(WriterHolds \/ ReaderHolds)
         [] Statement(t)[1] = "lock" -> MutexFree(Statement(t)[2])
         [] OTHER -> TRUE

\* a thread starts a command
ThreadStart(t, op) ==
    /\ calls[t].op = "none"
    /\ calls' = [calls EXCEPT ![t] = [ThreadIdle EXCEPT !.op = op, !.at = 1]]
    /\ UNCHANGED <<index, watched_folders, excluded_folders, search_history,
                   data_dir, db_conn, db, disk, scan, docscan, toggle, pdf_queue, ret,
                   now, out>>

\* the next statement of t: std's RwLock does not say whether a read()
\* issued while a writer waits is granted or queued behind the writer
ThreadStep(t) ==
    /\ CanStep(t)
    /\ LET do == Statement(t)[1]
           on == Statement(t)[2]
           next == calls[t].at + 1
       IN \/ /\ do = "read"
             /\ calls' = [calls EXCEPT ![t].holds = "read", ![t].at = next]
          \/ /\ do = "read"
             /\ calls[t].holds = "none"
             /\ WriterWaits
             /\ calls' = [calls EXCEPT ![t].holds = "queued"]
          \/ /\ do = "write"
             /\ calls' = IF WriterHolds \/ ReaderHolds
                         THEN [calls EXCEPT ![t].holds = "pending"]
                         ELSE [calls EXCEPT ![t].holds = "write", ![t].at = next]
          \/ /\ do = "lock"
             /\ calls' = [calls EXCEPT ![t].mutexes = @ \cup {on}, ![t].at = next]
          \/ /\ do = "drop"
             /\ calls' = IF on = "index"
                         THEN [calls EXCEPT ![t].holds = "none", ![t].at = next]
                         ELSE [calls EXCEPT ![t].mutexes = @ \ {on}, ![t].at = next]
    /\ UNCHANGED <<index, watched_folders, excluded_folders, search_history,
                   data_dir, db_conn, db, disk, scan, docscan, toggle, pdf_queue, ret,
                   now, out>>

InitOrder ==
    /\ index = <<>>
    /\ watched_folders = {}
    /\ excluded_folders = {}
    /\ data_dir = FALSE
    /\ db_conn = FALSE
    /\ db = NoDb
    /\ disk = [p \in Files \cup {File4, File5} |->
                  [exists |-> p \in Files, size |-> InitialSize(p), modified |-> 1]]
    /\ scan = ScanIdle
    /\ docscan = DocScanIdle
    /\ toggle = [t \in Togglers |-> ToggleIdle]
    /\ calls = [t \in Threads |-> ThreadIdle]
    /\ pdf_queue = PdfQueueNew
    /\ ret = NoRet
    /\ search_history = <<>>
    /\ now = 0
    /\ out = NoOut

NextOrder ==
    \/ \E t \in Threads, op \in Commands : ThreadStart(t, op)
    \/ \E t \in Threads : ThreadStep(t)

SpecOrder == InitOrder /\ [][NextOrder]_vars

(***************************************************************************)
(* Searches after delete_file                                              *)
(***************************************************************************)
NextDelete ==
    \/ SetDataDir
    \/ ScanStart(SearchScanInputs, {FALSE})
    \/ ScanWalk
    \/ ScanMerge
    \/ ScanSave
    \/ DeleteFile(DeleteInputs)
    \/ Search(SearchInputs)

SpecDelete == Init /\ [][NextDelete]_vars

(***************************************************************************)
(* Searches with a size or a date filter                                   *)
(***************************************************************************)
\* the search_index calls the user makes: a bound on the size or on the date
SizedInputs ==
    {[query |-> Query_r, filters |-> [NoFilters EXCEPT !.min_size = 2]],
     [query |-> Query_r, filters |-> [NoFilters EXCEPT !.max_size = 2]],
     [query |-> Query_r, filters |-> [NoFilters EXCEPT !.date_from = 1]],
     [query |-> Query_r, filters |-> [NoFilters EXCEPT !.date_to = MaxMtime]]}

NextSized ==
    \/ SetDataDir
    \/ ScanStart(SearchScanInputs, {FALSE})
    \/ ScanWalk
    \/ ScanMerge
    \/ ScanSave
    \/ Search(SizedInputs)

SpecSized == Init /\ [][NextSized]_vars

(***************************************************************************)
(* search/direct_search.rs: the calls with a query in a caseless script    *)
(***************************************************************************)
\* five Arabic letters and a Latin one, in upper and in lower case
Query_behR == <<"beh", "beh", "beh", "beh", "beh", "R">>
Query_behr == <<"beh", "beh", "beh", "beh", "beh", "r">>

\* the DocumentTables: Arabic and mixed documents, each at most once
CaselessTables ==
    {t \in SeqsUpTo({[path |-> p, size |-> 1, modified |-> 1] : p \in {File2, File3, File6}}, 3) :
        \A i, j \in 1..Len(t) : i # j => t[i].path # t[j].path}

\* the calls: queries the classifier reports as caseless, and mixed-script
\* queries that start with a Latin letter or hold one among the first five
CaselessInputs ==
    [op : {"caseless_input"}, files : CaselessTables,
     query : {Query_beh, Query_behR, Query_behr, <<"R", "beh">>, <<"beh", " ", "R">>}]

InitCaseless == AppInit /\ search_history = <<>> /\ now = 0 /\ out \in CaselessInputs

\* search_direct_content(query, files, None, None)
DirectScanCaseless ==
    /\ out.op = "caseless_input"
    /\ \E results \in search_direct_content(out.query, out.files, DEFAULT_MAX_RESULTS,
                                            None) :
           out' = [op |-> "caseless", query |-> out.query, files |-> out.files,
                   results |-> results]
    /\ UNCHANGED <<index, watched_folders, excluded_folders, search_history,
                   data_dir, db_conn, db, disk, scan, docscan, toggle, calls, pdf_queue,
                   ret, now>>

SpecCaseless == InitCaseless /\ [][DirectScanCaseless]_vars

(***************************************************************************)
(* commands/folders.rs: concurrent toggle_folder_exclusion calls           *)
(***************************************************************************)
NextToggle ==
    \/ ToggleRead
    \/ ToggleApply

SpecToggle == Init /\ [][NextToggle]_vars

(***************************************************************************)
(* C2                                                                      *)
(***************************************************************************)
\* the components of a path, in order: the path split at its separators
RECURSIVE SplitAtSep(_, _, _)
SplitAtSep(rest, cur, acc) ==
    IF rest = <<>> THEN (IF cur = <<>> THEN acc ELSE Append(acc, cur))
    ELSE IF Head(rest) = Sep
         THEN SplitAtSep(Tail(rest), <<>>, IF cur = <<>> THEN acc ELSE Append(acc, cur))
         ELSE SplitAtSep(Tail(rest), Append(cur, Head(rest)), acc)

Components(p) == SplitAtSep(p, <<>>, <<>>)

\* folder a is path c itself or one of its ancestors
IsAncestorOrSelf(a, c) == StartsWith(Components(c), Components(a))

\* every path a folder tree can show: the folders, the files, the root
TreePaths == Folders \cup Files \cup {<<Sep>>}

\* C2: whatever adds, removes and toggles were made, is_excluded(C) holds
\* exactly when C or one of its ancestors is in the excluded set
ExclusionInheritance ==
    \A c \in TreePaths :
        is_excluded(c, excluded_folders)
            <=> \E e \in excluded_folders : IsAncestorOrSelf(e, c)

\* C2 witness: after a toggle, only \d\p is excluded, and \d\p\s\m is
\* excluded through its grandparent while the sibling \d\p2 is not
ExclusionInheritanceWitness ==
    /\ \E t \in Togglers : toggle[t].pc = "done"
    /\ excluded_folders = {FolderP}
    /\ is_excluded(File3, excluded_folders)
    /\ is_excluded(FolderS, excluded_folders)
    /\ ~is_excluded(FolderP2, excluded_folders)

(***************************************************************************)
(* C3                                                                      *)
(***************************************************************************)
\* every file on disk under the folder has a DocumentTable entry with its
\* size and modification time
UnmodifiedFolder(folder) ==
    \A p \in Files :
        disk[p].exists /\ StartsWith(p, folder \o <<Sep>>) =>
            \E k \in 1..Len(index) :
                /\ index[k].path = p
                /\ index[k].size = disk[p].size
                /\ index[k].modified = disk[p].modified

\* C3: a scan_folder call without force_reindex over a folder whose files
\* all have the size and modification time of their DocumentTable entries
\* extracts no file and returns no newly indexed file, and its update leaves
\* the DocumentTable as it was
RescanUnmodified ==
    [][/\ (/\ scan.pc = "walk" /\ scan'.pc = "merge"
           /\ ~scan.force_reindex
           /\ UnmodifiedFolder(scan.path))
          => (scan'.extracted = {} /\ scan'.new_files = <<>>)
       /\ (scan.pc = "merge" /\ scan'.pc = "save" /\ scan.new_files = <<>>)
          => index' = index]_vars

\* C3 witness: a rescan of \d without force_reindex has walked the folder
\* after every file was indexed and some file was modified and indexed anew:
\* nothing was extracted and nothing is returned
RescanUnmodifiedWitness ==
    /\ scan.pc = "save"
    /\ scan.path = FolderD
    /\ ~scan.force_reindex
    /\ UnmodifiedFolder(FolderD)
    /\ PathsOf(index) = Files
    /\ \E k \in 1..Len(index) : index[k].modified > 1
    /\ scan.new_files = <<>>
    /\ scan.extracted = {}

(***************************************************************************)
(* C4                                                                      *)
(***************************************************************************)
\* C4: in every reachable state the DocumentTable holds at most one entry
\* for a path
NoDuplicatePaths ==
    \A i, j \in 1..Len(index) : i # j => index[i].path # index[j].path

(***************************************************************************)
(* C1, C5 - C10: the search_index call that has just returned              *)
(***************************************************************************)
RetLimit ==
    IF ret.filters.max_results = NoNum THEN DEFAULT_MAX_RESULTS
    ELSE ret.filters.max_results

RetOffset == IF ret.filters.offset = NoNum THEN 0 ELSE ret.filters.offset

\* the result lists of the same call when it asks for every result: no
\* offset, and a limit no list can reach
FullResults ==
    {outcome.results :
        outcome \in search_index(
            ret.query,
            [ret.filters EXCEPT !.max_results = Len(index) + Len(db.files) + 1,
                                !.offset = 0],
            index, db.files, tantivy_docs, excluded_folders, FtsReady,
            FtsFails(ret.query), TantivyRejects(ret.query))}

\* C1: no result of a search_index call lies in or under a folder of the
\* excluded set, whichever engine served the call and whether or not the call
\* is scoped to one file
NoExcludedResults ==
    ret.called =>
        \A k \in 1..Len(ret.results) :
            ~\E e \in excluded_folders : IsAncestorOrSelf(e, ret.results[k].path)

\* C5: when the full filtered list has more than offset results, the call
\* returns its slice [offset, offset + limit)
PaginationSlice ==
    (ret.called /\ ret.ok /\ ~IsBlank(ret.query)) =>
        \E full \in FullResults :
            RetOffset < Len(full) =>
                ret.results = SubSeq(full, RetOffset + 1,
                                     Min(RetOffset + RetLimit, Len(full)))

\* C6: with offset 0 the call returns min(limit, k) results, k being the
\* number of documents that match and pass the exclusion and the filters
TruncationAfterFilters ==
    (ret.called /\ ret.ok /\ ~IsBlank(ret.query) /\ RetOffset = 0) =>
        \E full \in FullResults :
            Len(ret.results) = Min(RetLimit, Len(full))

\* the candidates the Index Store gave the call: those of FTS5 when it
\* served the call, none when it was unavailable or failed
StoreCandidates ==
    IF "fts5" \in ret.engines
    THEN Len(search_fts5(db.files, ret.query, RetLimit + RetOffset, 0,
                         ret.filters.file_path, excluded_folders))
    ELSE 0

\* C7: a call that is not scoped to one file and whose Index Store gave
\* fewer than 5 candidates also runs the direct scan
DirectSupplement ==
    (/\ ret.called /\ ret.ok /\ ~IsBlank(ret.query)
     /\ ret.filters.file_path = None
     /\ StoreCandidates < MIN_TANTIVY_RESULTS)
        => "direct" \in ret.engines

\* C8: no path occurs twice in the results of a call
UniqueResultPaths ==
    ret.called =>
        \A i, j \in 1..Len(ret.results) :
            i # j => ret.results[i].path # ret.results[j].path

\* C9: a call returns Ok whatever the Index Store does (no lock is ever
\* poisoned here)
FailuresAbsorbed == ret.called => ret.ok

\* the paths the Index Store holds
StorePaths ==
    IF FtsReady /\ db.tables THEN {db.files[k].path : k \in 1..Len(db.files)} ELSE {}

\* C10: a call without filters returns every document of the DocumentTable
\* that matches the query, is not in the Index Store and is not excluded
WindowBackstop ==
    (ret.called /\ ret.ok /\ ~IsBlank(ret.query) /\ ret.filters = NoFilters) =>
        \A k \in 1..Len(index) :
            (/\ index[k].path \notin StorePaths
             /\ ~UnderExcludedPrefix(index[k].path, excluded_folders)
             /\ \A d \in search_direct_content(ret.query, index, Len(index) + 1,
                                               None) :
                    index[k].path \in PathsOf(d))
                => index[k].path \in PathsOf(ret.results)

(***************************************************************************)
(* C11 - C14: the parser call that has just returned                       *)
(***************************************************************************)
\* C11: for lower-case terms a, b, t and every text, "+t" matches exactly the
\* texts that contain t, "a AND b" those that contain a and b, "a -b" those
\* that contain a and not b, and the quoted "x r" those that contain "x r"
OperatorSemantics ==
    out.op = "parse" =>
        /\ \A t \in BareTerms :
              out.tokens = <<(<<"+">> \o t)>> => (out.matched <=> Contains(out.text, t))
        /\ \A a, b \in BareTerms :
              /\ out.tokens = <<a, KwAnd, b>> =>
                    (out.matched <=> (Contains(out.text, a) /\ Contains(out.text, b)))
              /\ out.tokens = <<a, <<"-">> \o b>> =>
                    (out.matched <=> (Contains(out.text, a) /\ ~Contains(out.text, b)))
        /\ out.tokens = <<Phrase_x_r>> =>
              (out.matched <=> Contains(out.text, <<"x", " ", "r">>))

\* C11 witness: "x -r" has matched the text "x"
OperatorSemanticsWitness ==
    /\ out.op = "parse"
    /\ out.tokens = <<(<<"x">>), (<<"-", "r">>)>>
    /\ out.text = <<"x">>
    /\ out.parsed.excluded_terms = <<(<<"r">>)>>
    /\ out.matched

\* the tokens the scan sees: the quoted phrases are taken out of the query
\* before it is split at white space
Scanned == SelectSeq(out.tokens, LAMBDA t : t # Phrase_x_r)

\* scanned token k is the term of a NOT before it (that NOT being an
\* operator, not itself the term of a NOT)
RECURSIVE TermOfNot(_, _)
TermOfNot(tokens, k) ==
    /\ k > 1
    /\ EqIgnoreAsciiCase(tokens[k - 1], KwNot)
    /\ ~TermOfNot(tokens, k - 1)

\* the bare tokens of the query: terms without operator, not taken by a NOT
BareOf(tokens) == {tokens[k] : k \in {j \in 1..Len(tokens) : tokens[j] \in BareTerms /\ ~TermOfNot(tokens, j)}}

\* every bare token is a required term, no term is optional
AllBareRequired ==
    /\ out.parsed.optional_terms = <<>>
    /\ BareOf(Scanned) \subseteq {out.parsed.required_terms[j] : j \in 1..Len(out.parsed.required_terms)}

\* a query of bare tokens only: they are the optional terms, in input order
OnlyBareOptional ==
    (\A k \in 1..Len(out.tokens) : out.tokens[k] \in BareTerms) =>
        /\ out.parsed.optional_terms = out.tokens
        /\ out.parsed.required_terms = <<>>

PhraseMakesBareRequired ==
    (out.op = "parse" /\ \E k \in 1..Len(out.tokens) : out.tokens[k] = Phrase_x_r) =>
        LET phrase == <<"x", " ", "r">>
            bare == BareOf(Scanned)
            required == {out.parsed.required_terms[k] :
                            k \in 1..Len(out.parsed.required_terms)}
        IN /\ \E k \in 1..Len(out.parsed.exact_phrases) :
                 out.parsed.exact_phrases[k] = phrase
           /\ phrase \in required
           /\ bare \subseteq required
           /\ out.matched =>
                 (Contains(out.text, phrase) /\ \A t \in bare : Contains(out.text, t))

\* the terms of a list of the parsed query, as a set
TermsOf(list) == {list[k] : k \in 1..Len(list)}

\* C14: matches is false when an excluded term occurs in the text, false
\* when an exact phrase or a required term is absent, asks for at least one
\* optional term when there is no required term and some optional one, and
\* is true for the empty parsed query
MatchesContract ==
    out.op = "matches" =>
        LET q == out.parsed
            occurs(list) == {t \in TermsOf(list) : Contains(out.text, t)}
        IN /\ occurs(q.excluded_terms) # {} => ~out.matched
           /\ occurs(q.exact_phrases) # TermsOf(q.exact_phrases) => ~out.matched
           /\ occurs(q.required_terms) # TermsOf(q.required_terms) => ~out.matched
           /\ (q.required_terms = <<>> /\ q.optional_terms # <<>> /\ out.matched)
                 => occurs(q.optional_terms) # {}
           /\ (q.required_terms = <<>> /\ q.optional_terms = <<>>
                 /\ q.excluded_terms = <<>> /\ q.exact_phrases = <<>>) => out.matched

\* C14 witness: with no required term, the optional terms x and r and the
\* excluded phrase "x r", the text "r" has matched
MatchesContractWitness ==
    /\ out.op = "matches"
    /\ out.parsed.required_terms = <<>>
    /\ out.parsed.optional_terms = <<(<<"x">>), (<<"r">>)>>
    /\ out.parsed.excluded_terms = <<(<<"x", " ", "r">>)>>
    /\ out.text = <<"r">>
    /\ out.matched

(***************************************************************************)
(* C15: the direct scan that has just returned                             *)
(***************************************************************************)
\* the documents of the table whose lower-cased name and content satisfy
\* the parsed query
Satisfying(files, query) ==
    {files[k].path : k \in {j \in 1..Len(files) :
        matches_parsed_query(ToLower(FileName(files[j])) \o <<" ">> \o ToLower(FileContent(files[j])),
                             parse_simple_query(ToLower(query)))}}

\* C15: for every DocumentTable and non-blank query the direct scan, its cap
\* not below the size of the table, returns exactly the documents whose
\* lower-cased name plus content satisfies matches(parse(query))
DirectScanIsMatches ==
    (out.op = "direct" /\ ~IsBlank(out.query)) =>
        PathsOf(out.results) = Satisfying(out.files, out.query)

(***************************************************************************)
(* C16 - C18: the history ledger                                           *)
(***************************************************************************)
\* the ledger holds an entry for the query, letter case ignored
HasQuery(entries, query) ==
    \E k \in 1..Len(entries) : ToLower(entries[k].query) = ToLower(query)

\* C16: after add(q, n) with a non-blank q the front entry is (q, n) with
\* the newest timestamp and no other entry has a query equal to q ignoring
\* case, so a query added twice has one entry, with the later result_count
AddDedup ==
    (out.op = "add" /\ ~IsBlank(out.query)) =>
        /\ search_history # <<>>
        /\ search_history[1].query = out.query
        /\ search_history[1].result_count = out.result_count
        /\ \A k \in 1..Len(search_history) :
              search_history[k].timestamp <= search_history[1].timestamp
        /\ ~HasQuery(Tail(search_history), out.query)

\* C16 witness: the query of the front entry of a full ledger has been added
\* again in another letter case, with another result_count and a later time
AddDedupWitness ==
    /\ out.op = "add"
    /\ Len(out.before) = MAX_HISTORY_ENTRIES
    /\ out.before[1].query = NumberedQuery(MAX_HISTORY_ENTRIES)
    /\ out.query = <<"X">> \o Tail(NumberedQuery(MAX_HISTORY_ENTRIES))
    /\ out.result_count # out.before[1].result_count
    /\ search_history[1].query = out.query
    /\ search_history[1].timestamp > out.before[1].timestamp
    /\ Len(search_history) = MAX_HISTORY_ENTRIES

\* C17: the ledger never holds more than 50 entries, and a new query added
\* to a full ledger drops the entry at the back, the others keeping their
\* order behind the new one
BoundedDropsOldest ==
    /\ Len(search_history) <= MAX_HISTORY_ENTRIES
    /\ (/\ out.op = "add"
        /\ ~IsBlank(out.query)
        /\ Len(out.before) = MAX_HISTORY_ENTRIES
        /\ ~HasQuery(out.before, out.query))
          => /\ Len(search_history) = MAX_HISTORY_ENTRIES
             /\ Tail(search_history) = SubSeq(out.before, 1, MAX_HISTORY_ENTRIES - 1)

\* C17 witness: a new query has been added to a full ledger, whose oldest
\* entry is gone
BoundedDropsOldestWitness ==
    /\ out.op = "add"
    /\ out.query = <<"r">>
    /\ Len(out.before) = MAX_HISTORY_ENTRIES
    /\ out.before[MAX_HISTORY_ENTRIES].query = NumberedQuery(1)
    /\ ~HasQuery(search_history, NumberedQuery(1))
    /\ search_history[MAX_HISTORY_ENTRIES].query = NumberedQuery(2)

\* C18: in every state of the ledger the entries are pairwise distinct by
\* query, letter case ignored, and the later added stand first; and
\* get_recent(n) returns the first min(n, length) entries in that order and
\* leaves the ledger as it was
DistinctRecentFirst ==
    /\ Cardinality({ToLower(search_history[k].query) : k \in 1..Len(search_history)})
          = Len(search_history)
    /\ \A k \in 2..Len(search_history) :
          search_history[k - 1].timestamp >= search_history[k].timestamp
    /\ out.op = "get" =>
          /\ out.entries = SubSeq(search_history, 1, Min(out.count, Len(search_history)))
          /\ search_history = out.before

\* C18 witness: get_recent(10) has returned the ten entries at the front of
\* a full ledger to which a query had been added again
DistinctRecentFirstWitness ==
    /\ out.op = "get"
    /\ out.count = 10
    /\ Len(out.entries) = 10
    /\ Len(search_history) = MAX_HISTORY_ENTRIES
    /\ out.entries[1].query = NumberedQuery(1)
    /\ out.entries[10] = search_history[10]

(***************************************************************************)
(* C19, C20: the search_index call and the ledger, the single-file scope   *)
(***************************************************************************)
\* C19: a search_index call writes to the history ledger exactly when its
\* query is not blank and it has no single-file scope; the front entry is
\* then the query with the number of results returned to the caller (a
\* search repeated within one reading of the clock writes the same entry
\* again); a blank query returns no result and leaves the ledger as it was
HistoryFrame ==
    [][ret'.called =>
          IF ~IsBlank(ret'.query) /\ ret'.filters.file_path = None
          THEN /\ search_history' # <<>>
               /\ search_history'[1].query = ret'.query
               /\ search_history'[1].result_count = Len(ret'.results)
               /\ Tail(search_history') = HistoryRemove(search_history, ret'.query)
          ELSE /\ search_history' = search_history
               /\ IsBlank(ret'.query) => ret'.results = <<>>]_vars

\* C20: a call with a single-file scope runs the direct scan only, no query
\* goes to the Index Store (FTS5 or Tantivy), and every result has the path
\* of the scope
SingleFileDirectOnly ==
    (ret.called /\ ret.filters.file_path # None) =>
        /\ ret.engines \subseteq {"direct"}
        /\ \A k \in 1..Len(ret.results) : ret.results[k].path = ret.filters.file_path

(***************************************************************************)
(* C21, C22: what a scan puts into the DocumentTable                       *)
(***************************************************************************)
\* the files WalkDir meets under the scanned folder that a scan has to
\* skip: of zero size, of an unsupported type, or not extracted
ToSkip ==
    {p \in DOMAIN disk :
        /\ disk[p].exists
        /\ StartsWith(p, scan.path \o <<Sep>>)
        /\ \/ disk[p].size = 0
           \/ ~is_supported_extension(ExtOf(p))
           \/ extract_content(p) \in {None, <<>>}}

\* the entries of the table at a path
EntriesAt(files, p) == SelectSeq(files, LAMBDA f : f.path = p)

\* C21: a scan skips the files of zero size, of an unsupported extension and
\* those whose extraction fails or gives no content: none is in the set the
\* scan returns, none is inserted into the DocumentTable by its merge, and
\* the scan goes on to its end
SkippedNotIndexed ==
    [][/\ (scan.pc = "walk" /\ scan'.pc # "walk") =>
             /\ scan'.pc = "merge"
             /\ PathsOf(scan'.new_files) \cap ToSkip = {}
       /\ (scan.pc = "merge" /\ scan'.pc # "merge") =>
             /\ scan'.pc = "save"
             /\ \A p \in DOMAIN disk :
                   p \notin PathsOf(scan.new_files) =>
                       EntriesAt(index', p) = EntriesAt(index, p)
       /\ scan.pc = "merge" => scan'.new_files = scan.new_files]_vars

\* C22: the merge of a scan changes the DocumentTable only at the paths of
\* the documents the scan produced: each of these paths has the new document
\* and no other entry, and every other entry - of an unchanged file, of
\* another root, of a file no longer on disk - stays as it was, in its place
MergeFrame ==
    [][(scan.pc = "merge" /\ scan'.pc # "merge") =>
          LET untouched(files) ==
                  SelectSeq(files, LAMBDA f : f.path \notin PathsOf(scan.new_files))
          IN /\ \A k \in 1..Len(scan.new_files) :
                   EntriesAt(index', scan.new_files[k].path) = <<scan.new_files[k]>>
             /\ untouched(index') = untouched(index)]_vars

\* C22 witness: the merge of a scan of \d\p has replaced entries of the
\* table, which keeps a file of another root and a file of \d\p that is no
\* longer on disk
MergeFrameWitness ==
    /\ scan.pc = "save"
    /\ scan.path = FolderP
    /\ scan.new_files # <<>>
    /\ PathsOf(scan.new_files) \subseteq PathsOf(index)
    /\ File2 \in PathsOf(index) \ PathsOf(scan.new_files)
    /\ File1 \in PathsOf(index) \ PathsOf(scan.new_files)
    /\ ~disk[File1].exists


(***************************************************************************)
(* C23, C24: the write guard on the DocumentTable                          *)
(***************************************************************************)
\* the call is a command op about to execute the statement step
IsAt(c, op, step) ==
    /\ calls[c].op = op
    /\ calls[c].at <= Len(Program(op))
    /\ StepOf(c) = step

\* a scan_folder call between the retain and the extend of its merge
MidMerge(c) == IsAt(c, "scan_folder", "extend")

\* C23: the merge of a scan is atomic for the readers of the DocumentTable: a
\* reader never sees the table between the retain and the extend of a merge
\* (an updated path missing) nor a path twice; and when a scan completes its
\* merge each path it produced holds exactly its document, whatever another
\* scan had written there before.
MergeAtomic ==
    [][/\ (out' # out /\ out'.op = "read") =>
              /\ out'.files = index
              /\ \A p \in PathsOf(out'.files) : Len(EntriesAt(out'.files, p)) = 1
              /\ \A c \in Calls :
                     MidMerge(c) =>
                         PathsOf(calls[c].new_files) \subseteq PathsOf(out'.files)
       /\ \A c \in Calls :
              (MidMerge(c) /\ calls'[c].at = calls[c].at + 1) =>
                  \A p \in PathsOf(calls[c].new_files) :
                      EntriesAt(index', p) = EntriesAt(calls[c].new_files, p)]_vars

\* two scans have produced different documents for one path, both have
\* merged, the table holds the document of the first call, whose merge was
\* the last, and a reader has seen it
MergeAtomicWitness ==
    /\ \A c \in Calls : IsAt(c, "scan_folder", "save")
    /\ EntriesAt(calls[1].new_files, File1) # <<>>
    /\ EntriesAt(calls[2].new_files, File1) # <<>>
    /\ EntriesAt(calls[1].new_files, File1) # EntriesAt(calls[2].new_files, File1)
    /\ EntriesAt(index, File1) = EntriesAt(calls[1].new_files, File1)
    /\ out.op = "read"
    /\ out.files = index

\* C24: a command that holds the write guard on the DocumentTable executes
\* only statements on the table: while it holds the guard it extracts no
\* file, and it neither queries nor saves the database, the disk or the
\* folder sets.
WriteGuardOnlyForTable ==
    [][\A c \in Calls :
           (calls[c].holds = "write" /\ calls'[c] # calls[c]) =>
               /\ StepOf(c) \in {"retain", "extend", "replace", "clear"}
               /\ calls'[c].new_files = calls[c].new_files
               /\ calls'[c].existing_files_map = calls[c].existing_files_map
               /\ UNCHANGED <<db, db_conn, disk, watched_folders, excluded_folders>>]_vars

\* load_index holds the guard to replace the table by the rows it has read
\* from the database a scan_folder call has saved
WriteGuardOnlyForTableWitness ==
    \E c, d \in Calls :
        /\ IsAt(c, "load_index", "replace")
        /\ calls[c].holds = "write"
        /\ calls[c].new_files # <<>>
        /\ calls[d].op = "scan_folder"
        /\ calls[d].at > Len(Program("scan_folder"))


(***************************************************************************)
(* C25: exclusion on separator boundaries                                  *)
(***************************************************************************)
\* C25: exclusion filtering removes from the results of a search_index call
\* only documents in or under an excluded folder: a result the same call
\* returns when no folder is excluded, whose path has no excluded folder as
\* itself or an ancestor on separator boundaries (a sibling folder whose name
\* begins with the excluded folder's name is not a descendant), is returned.
SiblingNotExcluded ==
    (ret.called /\ ret.ok /\ ret.filters.max_results = NoNum
                /\ ret.filters.offset = NoNum) =>
        \A outcome \in search_index(ret.query, ret.filters, index, db.files,
                                    tantivy_docs, {}, FtsReady, FtsFails(ret.query),
                                    TantivyRejects(ret.query)) :
            \A k \in 1..Len(outcome.results) :
                (~\E e \in excluded_folders :
                      IsAncestorOrSelf(e, outcome.results[k].path)) =>
                    outcome.results[k].path \in PathsOf(ret.results)


(***************************************************************************)
(* C26: apply_filters                                                      *)
(***************************************************************************)
\* the result satisfies every filter that is present
Satisfies(r, filters) ==
    /\ (filters.file_types # None /\ Len(filters.file_types) > 0) =>
           \E k \in 1..Len(filters.file_types) :
               filters.file_types[k] = get_file_type(ExtOf(r.path))
    /\ filters.date_from # NoNum => filters.date_from <= r.modified
    /\ filters.date_to # NoNum => r.modified <= filters.date_to
    /\ filters.min_size # NoNum => filters.min_size <= r.size
    /\ filters.max_size # NoNum => r.size <= filters.max_size
    /\ filters.folder_path # None => StartsWith(r.path, filters.folder_path)

\* C26: apply_filters returns, in their original order, exactly the results
\* that satisfy every present filter: the k-th result is kept as the n-th
\* result of the output when it is the n-th that satisfies them and is dropped
\* otherwise; and a result is kept by several filters exactly when each of
\* them alone keeps it.
FiltersExact ==
    out.op = "filters" =>
        LET sat(k) == {j \in 1..k : Satisfies(out.results[j], out.filters)}
            only(field) == [NoFilters EXCEPT ![field] = out.filters[field]]
        IN /\ Len(out.filtered) = Cardinality(sat(Len(out.results)))
           /\ \A k \in sat(Len(out.results)) :
                  out.filtered[Cardinality(sat(k))] = out.results[k]
           /\ \A k \in 1..Len(out.results) :
                  (\E n \in 1..Len(out.filtered) : out.filtered[n] = out.results[k])
                      <=> \A field \in DOMAIN NoFilters :
                              apply_filters(<<out.results[k]>>, only(field)) # <<>>

\* a list of two results filtered by type, date, size and folder at once:
\* the first is dropped, the second is kept
FiltersExactWitness ==
    /\ out.op = "filters"
    /\ Len(out.results) = 2
    /\ out.filters.file_types = <<"word">>
    /\ out.filters.date_to = 2
    /\ out.filters.min_size = 2
    /\ out.filters.max_size # NoNum
    /\ out.filters.folder_path = FolderP
    /\ out.filtered = <<out.results[2]>>


(***************************************************************************)
(* C27: the file counts of the folder tree                                 *)
(***************************************************************************)
\* the nodes of a tree
RECURSIVE NodesOf(_)
NodesOf(node) ==
    {node} \cup UNION {NodesOf(node.children[k]) : k \in 1..Len(node.children)}

RECURSIVE SumCounts(_)
SumCounts(children) ==
    IF children = <<>> THEN 0
    ELSE Head(children).file_count + SumCounts(Tail(children))

\* C27: the file_count of every node of the forest is the number of documents
\* whose path lies under the folder of the node, at any depth, hence the
\* number of the files directly in the folder plus the counts of its children
TreeCounts ==
    out.op = "tree" =>
        \A tree \in out.trees :
            \A node \in NodesOf(tree) :
                /\ node.file_count =
                       Cardinality({k \in 1..Len(out.files) :
                           /\ out.files[k].path # node.path
                           /\ IsAncestorOrSelf(node.path, out.files[k].path)})
                /\ node.file_count =
                       Cardinality({k \in 1..Len(out.files) :
                           Components(PathParent(out.files[k].path))
                               = Components(node.path)})
                       + SumCounts(node.children)


(***************************************************************************)
(* C28: is_under_folder, normalize_path                                    *)
(***************************************************************************)
\* the pieces between the separators of a path, the empty piece before a
\* leading separator included, no piece after a last separator
RECURSIVE Pieces(_, _, _)
Pieces(rest, cur, acc) ==
    IF rest = <<>> THEN (IF cur = <<>> THEN acc ELSE Append(acc, cur))
    ELSE IF Head(rest) \in {Sep, "/"}
         THEN Pieces(Tail(rest), <<>>, Append(acc, cur))
         ELSE Pieces(Tail(rest), Append(cur, Head(rest)), acc)

\* C28: is_under_folder(path, folder) is true exactly when the folder is the
\* path itself or one of its ancestors, name by name on separator boundaries,
\* and normalizing a normalized path changes nothing
UnderFolderExact ==
    out.op = "under" =>
        /\ out.under <=> StartsWith(Pieces(out.path, <<>>, <<>>),
                                    Pieces(out.folder, <<>>, <<>>))
        /\ out.twice = out.once

\* \dd is found not to be under \d, its sibling of a shorter name, and
\* normalization had a separator to replace and one to append
UnderFolderExactWitness ==
    /\ out.op = "under"
    /\ out.path = <<"/", "d", "d">>
    /\ out.folder = <<Sep, "d">>
    /\ ~out.under
    /\ out.once = <<Sep, "d", "d", Sep>>


(***************************************************************************)
(* C29: the order of a combined result list                                *)
(***************************************************************************)
\* C29: in the list a search returns after combining both strategies, the
\* hits of the Index Store come first, as the Index Store returned them and
\* in its order, and the direct-scan matches that supplement them follow, in
\* non-increasing order of their direct-scan score
IndexHitsFirst ==
    (out.op = "search" /\ out.engines = {"tantivy", "direct"}) =>
        LET hits == search_with_tantivy(out.query, out.docs)
            pos(r) == CHOOSE n \in 1..Len(hits) : hits[n].path = r.path
            IsHit(r) == r.path \in PathsOf(hits)
        IN /\ \A k \in 1..Len(out.results) :
                  IF IsHit(out.results[k])
                  THEN out.results[k] = hits[pos(out.results[k])]
                  ELSE \E d \in search_direct_content(out.query, out.files,
                                                      DEFAULT_MAX_RESULTS, None) :
                           \E n \in 1..Len(d) : d[n] = out.results[k]
           /\ \A i, j \in 1..Len(out.results) :
                  i < j =>
                      LET a == out.results[i]
                          b == out.results[j]
                      IN /\ IsHit(b) => IsHit(a) /\ pos(a) < pos(b)
                         /\ (~IsHit(a) /\ ~IsHit(b)) => a.score >= b.score

\* one hit of the Index Store, then two direct-scan matches of different
\* scores, each higher than the score of the hit
IndexHitsFirstWitness ==
    /\ out.op = "search"
    /\ out.engines = {"tantivy", "direct"}
    /\ Len(out.results) = 3
    /\ out.results[1].path \in PathsOf(out.docs)
    /\ out.results[2].path \notin PathsOf(out.docs)
    /\ out.results[3].path \notin PathsOf(out.docs)
    /\ out.results[1].score < out.results[3].score
    /\ out.results[3].score < out.results[2].score


(***************************************************************************)
(* C30: the direct scan and its early termination                          *)
(***************************************************************************)
\* C30: for one DocumentTable snapshot, query and cap, the list an execution
\* of the direct scan returns is the list every execution returns, however
\* the workers interleave with the early-termination counter
DirectScanDeterministic ==
    out.op = "capped" =>
        \A results \in search_direct_content(out.query, out.files, out.max_results,
                                             None) :
            results = out.results


(***************************************************************************)
(* C31: the scores of the direct scan                                      *)
(***************************************************************************)
\* the query as the direct scan compares it, and the term it highlights
NormalizedQuery(query) == IF is_caseless_script(query) THEN query ELSE ToLower(query)

HighlightTerm(query) ==
    LET parsed == parse_simple_query(NormalizedQuery(query))
    IN IF parsed.required_terms # <<>> THEN parsed.required_terms[1]
       ELSE IF parsed.optional_terms # <<>> THEN parsed.optional_terms[1]
       ELSE NormalizedQuery(query)

\* the occurrences of the highlighted term in the content of a document
ContentOccurrences(path, query) ==
    MatchCount(IF is_caseless_script(query) THEN ContentOf(path)
               ELSE ToLower(ContentOf(path)),
               HighlightTerm(query), 1)

\* the query is found in the name of the document
NameTouched(path, query) ==
    IF is_caseless_script(query)
    THEN Contains(PathFileName(path), NormalizedQuery(query))
    ELSE contains_ignore_case(PathFileName(path), NormalizedQuery(query))

\* the list is in non-increasing order of score
ByScore(results) ==
    \A k \in 1..(Len(results) - 1) : results[k].score >= results[k + 1].score

\* C31 as stated: the score of a direct-scan result is 2.0 when the match
\* touched the file name and 1.0 otherwise, plus 0.1 for each content
\* occurrence recorded, at most 5 (scores in tenths); the list is sorted by
\* non-increasing score
ScoreByContentOccurrences ==
    out.op = "direct" =>
        /\ \A k \in 1..Len(out.results) :
               out.results[k].score =
                   (IF NameTouched(out.results[k].path, out.query) THEN 20 ELSE 10)
                   + Min(5, ContentOccurrences(out.results[k].path, out.query))
        /\ ByScore(out.results)

\* C31 amended: the score is 2.0 when the match touched the file name and 1.0
\* otherwise, plus 0.1 for each match recorded: the content occurrences, at
\* most 5, or the one file-name match recorded when the content has no
\* occurrence; the list is sorted by non-increasing score
ScoreByRecordedMatches ==
    out.op = "direct" =>
        /\ \A k \in 1..Len(out.results) :
               LET occurrences == ContentOccurrences(out.results[k].path, out.query)
               IN out.results[k].score =
                      (IF NameTouched(out.results[k].path, out.query) THEN 20 ELSE 10)
                      + (IF occurrences = 0 THEN 1 ELSE Min(5, occurrences))
        /\ ByScore(out.results)

\* three results: one with more than 5 content occurrences, of which 5 are
\* recorded, and one found by its name only
ScoreByRecordedMatchesWitness ==
    /\ out.op = "direct"
    /\ Len(out.results) = 3
    /\ \E k \in 1..3 : ContentOccurrences(out.results[k].path, out.query) > 5

(***************************************************************************)
(* C32                                                                     *)
(***************************************************************************)
\* every PDF queued has been processed: no worker holds one, and the counts
\* agree
AllProcessed ==
    /\ \A c \in Calls : calls[c].op # "pdf_worker"
    /\ pdf_queue.completed_count = pdf_queue.total_queued

\* C32: whenever is_idle() returns true, or status() returns a snapshot that
\* satisfies is_complete(), every PDF queued since the last reset has been
\* processed: no dequeued PDF is unfinished and completed == total
IdleMeansAllProcessed ==
    [][/\ (out.op = "queue_empty" /\ out'.op = "is_idle" /\ out'.idle)
            => AllProcessed'
       /\ (out.op = "status_read" /\ out'.op = "status" /\ is_complete(out'))
            => AllProcessed']_vars

(***************************************************************************)
(* C38                                                                     *)
(***************************************************************************)
\* C38: processing_count never wraps below zero (it counts at most the
\* workers) and completed <= total, whatever the interleaving of enqueue,
\* enqueue_batch, dequeue, mark_processing, mark_completed and reset
CountersSound ==
    /\ pdf_queue.processing_count <= MaxCalls
    /\ pdf_queue.completed_count <= pdf_queue.total_queued

(***************************************************************************)
(* C33                                                                     *)
(***************************************************************************)
\* C33: after save_index has succeeded, the load_index of the next run
\* restores the DocumentTable, the watched folders and the excluded folders
\* that were saved, and does not discard the database as an old version:
\* the database save wrote is at CURRENT_SCHEMA_VERSION
SaveLoadRoundTrip ==
    /\ (out.op \in {"save_index", "restarted"} /\ out.ok)
           => get_schema_version(db) = CURRENT_SCHEMA_VERSION
    /\ (out.op = "load_index" /\ out.ok)
           => /\ ~out.upgraded
              /\ index = out.files
              /\ watched_folders = out.folders
              /\ excluded_folders = out.excluded

(***************************************************************************)
(* C34                                                                     *)
(***************************************************************************)
\* C34: no interleaving of the readers of the DocumentTable with a pending
\* writer deadlocks: while a command is running, some running command can
\* execute its next statement
NoDeadlock == (\E t \in Threads : Running(t)) => \E t \in Threads : CanStep(t)

(***************************************************************************)
(* C35                                                                     *)
(***************************************************************************)
\* C35: a path that delete_file has moved to the trash, and that no scan
\* has put into the DocumentTable again, is in the results of no
\* search_index call, whichever engine serves the call
DeletedStaysOut ==
    \A p \in DeleteInputs :
        (ret.called /\ ~disk[p].exists /\ \A k \in 1..Len(index) : index[k].path # p)
            => p \notin PathsOf(ret.results)

(***************************************************************************)
(* C36                                                                     *)
(***************************************************************************)
\* the size and the date recorded for the path in the DocumentTable satisfy
\* the bounds of the filters
RecordedSatisfies(path, filters) ==
    \E k \in 1..Len(index) :
        /\ index[k].path = path
        /\ filters.date_from # NoNum => filters.date_from <= index[k].modified
        /\ filters.date_to # NoNum => index[k].modified <= filters.date_to
        /\ filters.min_size # NoNum => filters.min_size <= index[k].size
        /\ filters.max_size # NoNum => index[k].size <= filters.max_size

\* the filters without their bounds on the size and on the date
Unbounded(filters) ==
    [filters EXCEPT !.date_from = NoNum, !.date_to = NoNum, !.min_size = NoNum, !.max_size = NoNum]

\* C36: a search with a size or a date filter returns the documents that
\* the same search returns without the bounds and whose size and
\* last_modified in the DocumentTable satisfy the bounds, whichever engine
\* produced the hits
FiltersOnRecorded ==
    (ret.called /\ ret.ok) =>
        \E plain \in search_index(ret.query, Unbounded(ret.filters), index, db.files,
                                  tantivy_docs, excluded_folders, FtsReady,
                                  FtsFails(ret.query), TantivyRejects(ret.query)) :
            PathsOf(ret.results) =
                {p \in PathsOf(plain.results) : RecordedSatisfies(p, ret.filters)}


(***************************************************************************)
(* C37                                                                     *)
(***************************************************************************)
\* the documents the direct scan returns when it folds the case of the
\* query and of the documents
FoldedScan(query, files) ==
    PathsOf(DirectResults(files, ToLower(query), FALSE, parse_simple_query(ToLower(query))))

\* C37: for a query the classifier reports as caseless, the direct scan,
\* which does not fold the case, returns the documents it returns with the
\* query and the documents case-folded, also when later characters of the
\* query are cased letters
CaselessSameAsFolded ==
    (out.op = "caseless" /\ is_caseless_script(out.query))
        => PathsOf(out.results) = FoldedScan(out.query, out.files)


(***************************************************************************)
(* C39                                                                     *)
(***************************************************************************)
\* the command of the call c has not returned
InFlight(c) == calls[c].op # "none" /\ calls[c].at <= Len(Program(calls[c].op))

\* C39: once the commands in flight have returned, every document of the
\* DocumentTable lies under a watched folder: no document survives for a
\* folder that was removed or cleared while a scan of it was in flight
NoOrphanDocuments ==
    (\A c \in Calls : ~InFlight(c)) =>
        \A k \in 1..Len(index) :
            \E folder \in watched_folders : StartsWith(index[k].path, folder)


(***************************************************************************)
(* C40                                                                     *)
(***************************************************************************)
\* the toggler t completes its toggle_folder_exclusion call in this step
ToggleCompletes(t) == toggle[t].pc = "decided" /\ toggle'[t].pc = "done"

\* C40: a toggle_folder_exclusion call returns true exactly when its path
\* is excluded as it returns, and every completed toggle flips the
\* membership of its path, so that an even number of completed toggles of
\* a path leaves its membership as it was, also when the calls overlap
ToggleFlips ==
    [][\A t \in Togglers :
          ToggleCompletes(t) =>
              /\ toggle'[t].result = (toggle[t].path \in excluded_folders')
              /\ (toggle[t].path \in excluded_folders')
                     # (toggle[t].path \in excluded_folders)]_vars

====
